---- MODULE Spec2Model ----
(***************************************************************************)
(* The durable state engine of the algorithm platform: the SQLite store    *)
(* with its version ledger (database_metadata), the versioning plugin that *)
(* bumps the ledger after writes, the backup publisher (MinIO first, local *)
(* directory as fallback) and the startup reconciliation with its          *)
(* transactional restore.                                                  *)
(*                                                                         *)
(* Rows are identified by small integers; timestamps are naturals (one     *)
(* unit is one second, the resolution of the backup file names).  An       *)
(* optional value (a nil pointer in the source) is a sequence of length 0  *)
(* or 1.                                                                   *)
(***************************************************************************)
EXTENDS Integers, Sequences, FiniteSets, Bags, TLC

\* ---------------------------------------------------------------- bounds
MaxAlg == 2
MaxOther == 1
MaxVersion == 2
MaxTime == 1
MaxMut == 3

\* The tables getDatabaseMetadata reads, in the order models.AutoMigrate
\* creates them.
ManagedTables == {"database_metadata", "algorithms"}

AlgIds == 1..MaxAlg
PreIds == 1..MaxOther
VerIds == 1..MaxOther
JobIds == 1..MaxOther

VARIABLES
    \* the store
    algorithms,     \* committed rows of table algorithms
    versions,       \* committed rows of table versions
    preset_data,    \* committed rows of table preset_data
    jobs,           \* committed rows of table jobs
    ledger,         \* table database_metadata, in primary-key order
    tables,         \* the tables that exist, among database_metadata and
                    \* algorithms
    metaUnreadable, \* reading database_metadata fails with an error that is
                    \* neither "record not found" nor "no such table"
    now,            \* wall clock, seconds
    \* the versioning plugin
    incs,           \* bag of running incrementVersion goroutines
    nTrig,          \* writes on versioned tables the plugin reacted to
    nMut,           \* API mutations issued
    \* the restore transaction
    txLock,         \* the transaction holds SQLite's write lock
    txAlg,          \* rows of algorithms as the transaction sees them
    txPre,          \* rows of preset_data as the transaction sees them
    \* the remote destination (MinIO)
    minioUp,        \* the endpoint answers
    bucketExists,
    remoteLatest,   \* database-backup/latest.json: <<>> or <<object>>
    remoteJson,     \* database-backup/backup-<ts>.json: ts -> document
    remoteLatestDB, \* database-backup/latest.db: <<>> or <<image>>
    remoteDB,       \* database-backup/db-backup-<ts>.db: ts -> image
    remoteFinalDB,  \* database-backup/final-backup.db: <<>> or <<image>>
    \* the local destination (./data/backups)
    localJson,      \* backup-<ts>.json: ts -> [doc, mtime]
    localDB,        \* db-backup-<ts>.db: ts -> image
    \* LoadFromMinIO
    lpc,            \* "init", "select" (waiting on restoreChan / ctx.Done), "done"
    lpath,          \* which branch ran: "", "unreadable", "empty", "compare"
    lres,           \* what LoadFromMinIO returned: "", "nil", "error"
    ctxDone,        \* the 5-minute context has expired
    toPc,           \* the restore when the timeout was reported: "running" or
                    \* "finished" ("" = no timeout)
    curMeta,        \* what getDatabaseMetadata returned: <<>> or <<meta>>
    minioMeta,      \* what getMinIOBackupMetadata returned: <<>> or <<meta>>
    localMeta,      \* what getLocalBackupMetadata returned: <<>> or <<meta>>
    \* restoreFromBackup
    rpc,            \* "idle", "load", "begin", "delAlg", "delPre", "insert", "commit", "meta", "done"
    rmeta,          \* the BackupMetadata it was called with: <<>> or <<meta>>
    rdata,          \* the decoded backup document: <<>> or <<doc>>
    rres,           \* what it returned: "", "nil", "error"
    restoreChan,    \* the buffered result channel: <<>> or <<result>>
    nRestore,       \* restoreFromBackup calls started
    restoreSummary, \* the counters of the restore summary: <<>> or
                    \* <<[restoredAlgorithms, failedAlgorithms,
                    \*    restoredPresetData, failedPresetData]>>
    \* the store before the operation under study
    alg0, pre0, ver0, jobs0, ledger0,
    \* BackupToMinIO
    bpc,            \* "idle", "tables", "json", "db", "done"
    bmeta,          \* the metadata read by getDatabaseMetadata: <<>> or <<meta>>
    bdoc,           \* the document offered to the destinations: <<>> or <<doc>>
    bts,            \* the run's timestamp
    bres,           \* what the run returned: "", "nil", "error"
    jsonRemote,     \* outcome of backupJSONToMinIO in this run: "", "ok", "fail"
    jsonLocal,      \* outcome of saveLocalBackup in this run: "", "ok", "fail"
    dbRemote,       \* outcome of backupDBFileToMinIO in this run
    dbLocal,        \* outcome of saveLocalDBBackup in this run
    nRuns,          \* BackupToMinIO runs started
    cleanups,       \* cleanupOldBackups goroutines not yet run
    \* SQLiteProvider
    ppc,            \* the caller's position in the lifecycle: "new", "failed",
                    \* "opened", "configured", "migrated", "serving", "pinged",
                    \* "healthy", "stats"
    journal,        \* the journal mode the store file reports after the pragmas
    handle,         \* p.db and its connection pool: "none", "open", "closed"
    worker,         \* walCheckpointWorker: "none", "running", "stopped"
    stopCheckpoint, \* the channel p.stopCheckpoint is closed
    stopBackup,     \* the channel m.stopBackup is closed
    sched,          \* the scheduler goroutine: "none", "running", "stopped"
    schedRun,       \* a scheduled BackupToMinIO is running
    schedStarts,    \* when scheduled runs started, relative to Close's final
                    \* publication: subset of {"before", "during", "after"}
    cpc,            \* Close: "idle", "backup", "dbfile", "stop", "stopCkpt",
                    \* "ckpt", "closeDB", "done"
    nClose,         \* calls of Close
    nFinal,         \* final publications started by Close
    ckpts,          \* the checkpoints executed: who ran them, and whether a
                    \* restore transaction was in progress
    closeCkpt,      \* what Close's own checkpoint found: <<>> or
                    \* <<[stopped, handle]>>
    res,            \* what each lifecycle call returned: "", "nil", "error", "panic"
    \* the ticker of StartBackupScheduler
    tickC,          \* ticks buffered in ticker.C: 0 or 1
    dropped,        \* ticks that fired while ticker.C was full
    \* package src/internal/database: Database
    dpc,            \* New and Close: "none", "new", "loaded", "ticker",
                    \* "serving", "closed"
    ticker,         \* the ticker of startBackupScheduler: "none", "running",
                    \* "stopped"
    elapsed,        \* 5-minute intervals gone since startBackupScheduler
                    \* returned
    attempts,       \* calls of backupToMinIO made by the scheduler goroutine
    \* ExecuteWithRetry and TransactionWithRetry
    retryPc,        \* "idle", "loop", "done"
    retryFn,        \* the function called
    maxRetries,     \* its argument
    attempt,        \* the loop variable (i, attempt)
    lastErr,        \* <<>> (nil) or <<message>>
    trace,          \* the invocations of the operation and the sleeps, in order
    retryRes        \* <<>>, or <<what the function returned>>

storeVars == <<algorithms, versions, preset_data, jobs, ledger, metaUnreadable, tables>>
pluginVars == <<incs, nTrig, nMut>>
txVars == <<txLock, txAlg, txPre>>
remoteVars == <<minioUp, bucketExists, remoteLatest, remoteJson, remoteLatestDB, remoteDB,
                remoteFinalDB>>
localVars == <<localJson, localDB>>
loadVars == <<lpc, lpath, lres, ctxDone, toPc, curMeta, minioMeta, localMeta>>
restoreVars == <<rpc, rmeta, rdata, rres, restoreChan, nRestore, restoreSummary>>
preVars == <<alg0, pre0, ver0, jobs0, ledger0>>
backupVars == <<bpc, bmeta, bdoc, bts, bres, jsonRemote, jsonLocal, dbRemote, dbLocal, nRuns, cleanups>>
providerVars == <<ppc, journal, handle, worker, stopCheckpoint, stopBackup, sched,
                  schedRun, schedStarts, cpc, nClose, nFinal, ckpts, closeCkpt, res>>
retryVars == <<retryPc, retryFn, maxRetries, attempt, lastErr, trace, retryRes>>
tickerVars == <<tickC, dropped>>
legacyVars == <<dpc, ticker, elapsed, attempts>>
vars == <<storeVars, now, pluginVars, txVars, remoteVars, localVars, loadVars,
          restoreVars, preVars, backupVars, providerVars, retryVars, tickerVars, legacyVars>>

\* --------------------------------------------------------------- helpers
Max(S) == CHOOSE x \in S : \A y \in S : y <= x
Min(S) == CHOOSE x \in S : \A y \in S : x <= y

AddCopies(b, r, k) == IF k = 0 THEN b ELSE b (+) (r :> k)

\* A row of database_metadata (CheckpointAt is written and never read).
LedgerEntry(v, t, by, rc) ==
    [Version |-> v, LastUpdatedAt |-> t, UpdatedBy |-> by, RecordCount |-> rc]

\* db.Order("version DESC").First(&meta): the highest version, and among equal
\* versions the lowest primary key (First orders by primary key last).
\* No row leaves the destination zero-valued.
ZeroEntry == LedgerEntry(0, 0, "", 0)
FirstByVersionDesc(led) ==
    IF led = <<>> THEN ZeroEntry
    ELSE LET mx == Max({led[i].Version : i \in DOMAIN led})
             i0 == Min({i \in DOMAIN led : led[i].Version = mx})
         IN led[i0]

MaxVersionOf(led) == FirstByVersionDesc(led).Version

\* ------------------------------------------------- the versioning plugin
\* afterWrite: the tables the plugin reacts to.
Versioned(table) == table \in {"algorithms", "preset_data", "versions"}

\* go p.incrementVersion(): a goroutine that has read nothing yet.
NewInc == [pc |-> "read", cur |-> 0, cnt |-> 0]

\* afterWrite, run by GORM after every create, update and delete statement
\* (k statements on `table`): one goroutine per statement on a versioned table.
afterWrite(b, table, k) == IF Versioned(table) THEN AddCopies(b, NewInc, k) ELSE b

\* incrementVersion, line 53: p.db.Order("version DESC").First(&currentMeta),
\* the error ignored.
IncRead ==
    \E g \in BagToSet(incs) :
        /\ g.pc = "read"
        /\ incs' = (incs (-) SetToBag({g}))
                     (+) SetToBag({[pc |-> "count", cur |-> MaxVersionOf(ledger), cnt |-> 0]})
        /\ UNCHANGED <<storeVars, now, nTrig, nMut, txVars, remoteVars, localVars,
                       loadVars, restoreVars, preVars, providerVars, retryVars, tickerVars, legacyVars, backupVars>>

\* incrementVersion, line 57: p.db.Model(&models.Algorithm{}).Count(&count).
\* The goroutine reads outside any transaction: it sees committed rows only.
IncCount ==
    \E g \in BagToSet(incs) :
        /\ g.pc = "count"
        /\ incs' = (incs (-) SetToBag({g}))
                     (+) SetToBag({[pc |-> "write", cur |-> g.cur,
                                    cnt |-> Cardinality(algorithms)]})
        /\ UNCHANGED <<storeVars, now, nTrig, nMut, txVars, remoteVars, localVars,
                       loadVars, restoreVars, preVars, providerVars, retryVars, tickerVars, legacyVars, backupVars>>

\* The entry incrementVersion builds from what it read (lines 59-65).
IncEntry(g, t) == LedgerEntry(g.cur + 1, t, "auto", g.cnt)

\* incrementVersion, line 67: p.db.Create(&newMeta); the write lock is free.
IncWrite ==
    \E g \in BagToSet(incs) :
        /\ g.pc = "write"
        /\ ~txLock
        /\ ledger' = Append(ledger, IncEntry(g, now))
        /\ incs' = incs (-) SetToBag({g})
        /\ UNCHANGED <<algorithms, versions, preset_data, jobs, metaUnreadable, tables, now,
                       nTrig, nMut, txVars, remoteVars, localVars, loadVars,
                       restoreVars, preVars, providerVars, retryVars, tickerVars, legacyVars, backupVars>>

\* incrementVersion, lines 67-69: the Create waits for the write lock of a
\* running transaction, gives up after busy_timeout with "database is locked",
\* and the goroutine only prints a warning.
IncWriteBusy ==
    \E g \in BagToSet(incs) :
        /\ g.pc = "write"
        /\ txLock
        /\ incs' = incs (-) SetToBag({g})
        /\ UNCHANGED <<storeVars, now, nTrig, nMut, txVars, remoteVars, localVars,
                       loadVars, restoreVars, preVars, providerVars, retryVars, tickerVars, legacyVars, backupVars>>

\* ------------------------------------------------------- the API's writes
\* The rows of `table` after the statement op on row id.
ApplyWrite(rows, op, id) ==
    CASE op = "create" -> rows \cup {id}
      [] op = "delete" -> rows \ {id}
      [] OTHER -> rows

\* The statements the services issue through db.DB(): Create and Save on
\* algorithms, Create on versions, Create and Delete on preset_data, Create
\* and Save on jobs.  Each is one auto-committed statement, followed by the
\* plugin's callback.
WriteOps(table) ==
    CASE table = "algorithms" -> {"create", "save"}
      [] table = "versions" -> {"create"}
      [] table = "preset_data" -> {"create", "delete"}
      [] table = "jobs" -> {"create", "save"}

WriteEnabled(rows, op, id) ==
    CASE op = "create" -> id \notin rows
      [] OTHER -> id \in rows

Mutate ==
    /\ nMut < MaxMut
    /\ ~txLock
    /\ \E table \in {"algorithms", "versions", "preset_data", "jobs"} :
       \E op \in WriteOps(table) :
          /\ \/ /\ table = "algorithms"
                /\ \E id \in AlgIds :
                      /\ WriteEnabled(algorithms, op, id)
                      /\ algorithms' = ApplyWrite(algorithms, op, id)
                /\ UNCHANGED <<versions, preset_data, jobs>>
             \/ /\ table = "versions"
                /\ \E id \in VerIds :
                      /\ WriteEnabled(versions, op, id)
                      /\ versions' = ApplyWrite(versions, op, id)
                /\ UNCHANGED <<algorithms, preset_data, jobs>>
             \/ /\ table = "preset_data"
                /\ \E id \in PreIds :
                      /\ WriteEnabled(preset_data, op, id)
                      /\ preset_data' = ApplyWrite(preset_data, op, id)
                /\ UNCHANGED <<algorithms, versions, jobs>>
             \/ /\ table = "jobs"
                /\ \E id \in JobIds :
                      /\ WriteEnabled(jobs, op, id)
                      /\ jobs' = ApplyWrite(jobs, op, id)
                /\ UNCHANGED <<algorithms, versions, preset_data>>
          /\ incs' = afterWrite(incs, table, 1)
          /\ nTrig' = IF Versioned(table) THEN nTrig + 1 ELSE nTrig
    /\ nMut' = nMut + 1
    /\ UNCHANGED <<ledger, metaUnreadable, tables, now, txVars, remoteVars, localVars,
                   loadVars, restoreVars, preVars, providerVars, retryVars, tickerVars, legacyVars, backupVars>>

\* ------------------------------------------------------------ idle parts
NoTx == txLock = FALSE /\ txAlg = {} /\ txPre = {}
NoRemote ==
    /\ minioUp = FALSE /\ bucketExists = FALSE
    /\ remoteLatest = <<>> /\ remoteJson = <<>> /\ remoteLatestDB = <<>> /\ remoteDB = <<>>
    /\ remoteFinalDB = <<>>
NoLocal == localJson = <<>> /\ localDB = <<>>
IdleLoad ==
    /\ lpc = "init" /\ lpath = "" /\ lres = "" /\ ctxDone = FALSE /\ toPc = ""
    /\ curMeta = <<>> /\ minioMeta = <<>> /\ localMeta = <<>>
IdleRestore ==
    /\ rpc = "idle" /\ rmeta = <<>> /\ rdata = <<>> /\ rres = ""
    /\ restoreChan = <<>> /\ nRestore = 0 /\ restoreSummary = <<>>
IdleBackup ==
    /\ bpc = "idle" /\ bmeta = <<>> /\ bdoc = <<>> /\ bts = 0 /\ bres = ""
    /\ jsonRemote = "" /\ jsonLocal = "" /\ dbRemote = "" /\ dbLocal = ""
    /\ nRuns = 0 /\ cleanups = 0
IdlePlugin == incs = EmptyBag /\ nTrig = 0 /\ nMut = 0
LifecycleCalls ==
    {"Open", "Configure", "AutoMigrate", "PostMigrate", "Ping", "HealthCheck",
     "GetStats", "Close"}
NewProvider ==
    /\ ppc = "new" /\ handle = "none" /\ worker = "none"
    /\ stopCheckpoint = FALSE /\ stopBackup = FALSE
    /\ sched = "none" /\ schedRun = FALSE /\ schedStarts = {}
    /\ cpc = "idle" /\ nClose = 0 /\ nFinal = 0
    /\ ckpts = {} /\ closeCkpt = <<>>
    /\ res = [c \in LifecycleCalls |-> ""]
IdleProvider == NewProvider /\ journal = "wal"
IdleTicker == tickC = 0 /\ dropped = 0
IdleLegacy == dpc = "none" /\ ticker = "none" /\ elapsed = 0 /\ attempts = 0
IdleRetry ==
    /\ retryPc = "idle" /\ retryFn = "" /\ maxRetries = 0 /\ attempt = 0
    /\ lastErr = <<>> /\ trace = <<>> /\ retryRes = <<>>
PreIsNow ==
    /\ alg0 = algorithms /\ pre0 = preset_data /\ ver0 = versions
    /\ jobs0 = jobs /\ ledger0 = ledger

\* The ledgers a store starts with: none, or an entry a previous run left.
InitLedgers(rc) ==
    {<<>>} \cup {<<LedgerEntry(v, t, "auto", rc)>> : v \in 1..MaxVersion, t \in 0..MaxTime}

\* ---------------------------------------------- the ledger under writers
\* A serving store: API mutations and the increments they trigger.
InitLedger ==
    /\ algorithms \in SUBSET AlgIds
    /\ versions = {}
    /\ preset_data = {}
    /\ jobs = {}
    /\ ledger \in InitLedgers(Cardinality(algorithms))
    /\ metaUnreadable = FALSE
    /\ tables = ManagedTables
    /\ now = MaxTime
    /\ IdlePlugin /\ NoTx /\ NoRemote /\ NoLocal /\ IdleLoad /\ IdleRestore
    /\ IdleBackup /\ PreIsNow /\ IdleProvider /\ IdleRetry /\ IdleTicker /\ IdleLegacy

NextLedger == Mutate \/ IncRead \/ IncCount \/ IncWrite

SpecLedger == InitLedger /\ [][NextLedger]_vars

\* C1: once every triggered increment has finished, the ledger's maximum
\* version has grown by exactly 1 per committed mutation the plugin reacted to
\* (no increment lost, no version written twice).
C1_OnePerMutation ==
    incs = EmptyBag => MaxVersionOf(ledger) = MaxVersionOf(ledger0) + nTrig

\* ------------------------------------------------------ backup documents
\* The JSON document BackupToMinIO builds (lines 804-816): the rows of the four
\* tables and the metadata block.
Doc(a, v, p, j, md) ==
    [algorithms |-> a, versions |-> v, preset_data |-> p, jobs |-> j, metadata |-> md]

DocMeta(v, rc, t) == [version |-> v, record_count |-> rc, last_updated_at |-> t]

\* BackupMetadata as getMinIOBackupMetadata (lines 409-448) and
\* getLocalBackupMetadata (lines 492-531) extract it from a document: version,
\* record count and update time from the metadata block, the record count
\* estimated from the algorithms when it is 0, the update time defaulting to
\* the object's modification time when the block is missing.
MetaOf(doc, mtime, source, path) ==
    LET has == doc.metadata # <<>>
        rc == IF has THEN doc.metadata[1].record_count ELSE 0
    IN [Timestamp |-> mtime,
        Source |-> source,
        Path |-> path,
        Version |-> IF has THEN doc.metadata[1].version ELSE 0,
        RecordCount |-> IF rc = 0 THEN Cardinality(doc.algorithms) ELSE rc,
        LastUpdatedAt |-> IF has THEN doc.metadata[1].last_updated_at ELSE mtime]

\* A getDatabaseMetadata that reports a missing algorithms table as an error.
CurrentMetadataStrict(led, algs, tbls) ==
    IF "algorithms" \notin tbls THEN <<>>
    ELSE LET m == FirstByVersionDesc(led)
         IN <<[Timestamp |-> 0, Source |-> "current", Path |-> 0,
               Version |-> m.Version,
               RecordCount |-> Cardinality(algs),
               LastUpdatedAt |-> m.LastUpdatedAt]>>

\* getDatabaseMetadata, lines 210-250, on a store whose reads succeed: the
\* ledger led, the primary table algs and the existing tables tbls.  A
\* missing database_metadata table or an empty ledger gives version 0 and
\* the zero time with the count of algorithms, 0 when that table is missing
\* too; a ledger entry with a missing algorithms table is the error of Count.
CurrentMetadata(led, algs, tbls) ==
    IF "database_metadata" \notin tbls \/ led = <<>>
    THEN <<[Timestamp |-> 0, Source |-> "current", Path |-> 0,
            Version |-> 0,
            RecordCount |-> IF "algorithms" \in tbls THEN Cardinality(algs) ELSE 0,
            LastUpdatedAt |-> 0]>>
    ELSE IF "algorithms" \notin tbls THEN <<>>
    ELSE LET m == FirstByVersionDesc(led)
         IN <<[Timestamp |-> 0, Source |-> "current", Path |-> 0,
               Version |-> m.Version,
               RecordCount |-> Cardinality(algs),
               LastUpdatedAt |-> m.LastUpdatedAt]>>

\* getDatabaseMetadata: the authoritative ledger entry and the current number
\* of algorithms; version 0 and the zero time when the ledger has no entry;
\* <<>> is the error return.
getDatabaseMetadata ==
    IF metaUnreadable THEN <<>>
    ELSE CurrentMetadata(ledger, algorithms, tables)

\* getMinIOBackupMetadata: StatObject and GetObject of database-backup/latest.json.
getMinIOBackupMetadata ==
    IF minioUp /\ bucketExists /\ remoteLatest # <<>>
    THEN <<MetaOf(remoteLatest[1].doc, remoteLatest[1].mtime, "minio", 0)>>
    ELSE <<>>

\* getLocalBackupMetadata sorts backup-*.json by modification time, newest
\* first, and takes the first: the files of the newest modification time.
LatestLocalFiles ==
    {f \in DOMAIN localJson : \A g \in DOMAIN localJson : localJson[g].mtime <= localJson[f].mtime}

\* The possible returns of getLocalBackupMetadata (the sort is not stable).
getLocalBackupMetadata ==
    IF DOMAIN localJson = {} THEN {<<>>}
    ELSE {<<MetaOf(localJson[f].doc, localJson[f].mtime, "local", f)>> : f \in LatestLocalFiles}

\* A comparison by version alone, without the last_updated_at tie-break.
NewerByVersionOnly(b, newestVersion, newestTime) == b.Version > newestVersion

\* A comparison that lets a backup win a tie.
NewerOrEqual(b, newestVersion, newestTime) ==
    \/ b.Version > newestVersion
    \/ (b.Version = newestVersion /\ b.LastUpdatedAt >= newestTime)

\* LoadFromMinIO, lines 143-144 and 156-157: the backup b beats the newest
\* source found so far.
Newer(b, newestVersion, newestTime) ==
    \/ b.Version > newestVersion
    \/ (b.Version = newestVersion /\ b.LastUpdatedAt > newestTime)

\* A choice that never lets the current store win over a backup that exists.
NewestBackupIgnoringCurrent(cur, mb, lb) == IF lb # <<>> THEN lb ELSE mb

\* LoadFromMinIO, lines 133-163: the source chosen among current, MinIO and
\* local, as <<>> (current) or <<backup>>.
NewestBackup(cur, mb, lb) ==
    LET afterMinio == IF mb # <<>> /\ Newer(mb[1], cur.Version, cur.LastUpdatedAt)
                      THEN mb ELSE <<>>
        nv == IF afterMinio # <<>> THEN mb[1].Version ELSE cur.Version
        nt == IF afterMinio # <<>> THEN mb[1].LastUpdatedAt ELSE cur.LastUpdatedAt
    IN IF lb # <<>> /\ Newer(lb[1], nv, nt) THEN lb ELSE afterMinio

\* attemptRestore, lines 315-327: the backup chosen among MinIO and local by
\* the modification time of the object and of the file.
NewestByTimestamp(mb, lb) ==
    IF mb # <<>> /\ lb # <<>>
    THEN (IF mb[1].Timestamp > lb[1].Timestamp THEN mb ELSE lb)
    ELSE IF mb # <<>> THEN mb ELSE lb

\* A first-run test that looks at the MinIO side only and inverts the local
\* side.
NoBackupFoundRemoteOnly(mb, lb) == mb = <<>> /\ lb # <<>>

\* LoadFromMinIO, lines 99 and 128: no backup at either destination.
NoBackupFound(mb, lb) == mb = <<>> /\ lb = <<>>

\* go func() { restoreChan <- m.restoreFromBackup(ctx, newestBackup) }()
StartRestore(b) ==
    /\ rpc' = "load"
    /\ rmeta' = b
    /\ rdata' = <<>>
    /\ rres' = ""
    /\ restoreChan' = <<>>
    /\ nRestore' = nRestore + 1
    /\ restoreSummary' = <<>>

\* LoadFromMinIO returns r without having started a restore.
LoadReturns(r) ==
    /\ lpc' = "done"
    /\ lres' = r
    /\ UNCHANGED restoreVars

\* attemptRestore (lines 285-353) up to its select, called by LoadFromMinIO
\* on the branch `path`; its error is what LoadFromMinIO returns.
attemptRestore(path) ==
    /\ lpath' = path
    /\ \/ /\ ~minioUp                       \* BucketExists fails
          /\ LoadReturns("error")
          /\ UNCHANGED <<bucketExists, minioMeta, localMeta>>
       \/ /\ minioUp /\ ~bucketExists       \* MakeBucket, then "no backup available"
          /\ bucketExists' \in BOOLEAN
          /\ LoadReturns("error")
          /\ UNCHANGED <<minioMeta, localMeta>>
       \/ /\ minioUp /\ bucketExists
          /\ \E lb \in getLocalBackupMetadata :
               LET mb == getMinIOBackupMetadata
                   b == NewestByTimestamp(mb, lb)
               IN /\ minioMeta' = mb
                  /\ localMeta' = lb
                  /\ IF b = <<>>
                     THEN LoadReturns("error")
                     ELSE /\ StartRestore(b)
                          /\ lpc' = "select"
                          /\ lres' = ""
          /\ UNCHANGED bucketExists

\* LoadFromMinIO, lines 68-185: everything up to the select on restoreChan.
LoadFromMinIO ==
    /\ lpc = "init"
    /\ LET cur == getDatabaseMetadata IN
       /\ curMeta' = cur
       /\ IF cur = <<>>
          THEN attemptRestore("unreadable")
          ELSE IF cur[1].RecordCount = 0
          THEN \E lb \in getLocalBackupMetadata :
                 IF NoBackupFound(getMinIOBackupMetadata, lb)
                 THEN /\ lpath' = "empty"
                      /\ minioMeta' = <<>>
                      /\ localMeta' = <<>>
                      /\ LoadReturns("nil")
                      /\ UNCHANGED bucketExists
                 ELSE attemptRestore("empty")
          ELSE \E lb \in getLocalBackupMetadata :
                 LET mb == getMinIOBackupMetadata
                     b == NewestBackup(cur[1], mb, lb)
                 IN /\ lpath' = "compare"
                    /\ minioMeta' = mb
                    /\ localMeta' = lb
                    /\ UNCHANGED bucketExists
                    /\ IF NoBackupFound(mb, lb) \/ b = <<>>
                       THEN LoadReturns("nil")
                       ELSE /\ StartRestore(b)
                            /\ lpc' = "select"
                            /\ lres' = ""
    /\ UNCHANGED <<storeVars, now, pluginVars, txVars, minioUp, remoteLatest, remoteJson,
                   remoteLatestDB, remoteDB, remoteFinalDB, localVars, ctxDone, toPc, preVars, providerVars, retryVars, tickerVars, legacyVars, backupVars>>

\* select, case err := <-restoreChan (lines 188-195 and 344-347): on the
\* comparing branch a failed restore is reported and nil returned; the caller
\* of attemptRestore gets the restore's error.
LoadReceive ==
    /\ lpc = "select"
    /\ restoreChan # <<>>
    /\ restoreChan' = <<>>
    /\ lpc' = "done"
    /\ lres' = IF lpath = "compare" THEN "nil" ELSE restoreChan[1]
    /\ ctxDone' = TRUE                       \* defer cancel()
    /\ UNCHANGED <<storeVars, now, pluginVars, txVars, remoteVars, localVars, lpath, toPc,
                   curMeta, minioMeta, localMeta, rpc, rmeta, rdata, rres, nRestore, restoreSummary,
                   preVars, providerVars, retryVars, tickerVars, legacyVars, backupVars>>

\* select, case <-ctx.Done() (lines 196-199 and 348-349): the deadline expired.
\* The restore goroutine is not told; only its MinIO reads carry the context.
LoadTimeout ==
    /\ lpc = "select"
    /\ ctxDone' = TRUE
    /\ toPc' = IF rpc = "done" THEN "finished" ELSE "running"
    /\ lpc' = "done"
    /\ lres' = IF lpath = "compare" THEN "nil" ELSE "error"
    /\ UNCHANGED <<storeVars, now, pluginVars, txVars, remoteVars, localVars, lpath,
                   curMeta, minioMeta, localMeta, restoreVars, preVars, providerVars, retryVars, tickerVars, legacyVars, backupVars>>

\* ------------------------------------------------------ restoreFromBackup
\* restoreFromBackup returns r: the goroutine sends it on restoreChan
\* (buffered, so the send never blocks).
RestoreReturns(r) ==
    /\ rpc' = "done"
    /\ rres' = r
    /\ restoreChan' = <<r>>

\* The document behind a BackupMetadata, as the destinations hold it now.
BackupReadable(b) ==
    IF b.Source = "minio"
    THEN minioUp /\ bucketExists /\ remoteLatest # <<>> /\ ~ctxDone
    ELSE b.Path \in DOMAIN localJson

BackupDocument(b) ==
    IF b.Source = "minio" THEN remoteLatest[1].doc ELSE localJson[b.Path].doc

\* Step 1, lines 545-575: GetObject and Decode under ctx, or os.ReadFile.
RestoreLoad ==
    /\ rpc = "load"
    /\ \/ /\ BackupReadable(rmeta[1])
          /\ rdata' = <<BackupDocument(rmeta[1])>>
          /\ rpc' = "begin"
          /\ UNCHANGED <<rres, restoreChan>>
       \/ /\ RestoreReturns("error")
          /\ UNCHANGED rdata
    /\ UNCHANGED <<storeVars, now, pluginVars, txVars, remoteVars, localVars, loadVars,
                   rmeta, nRestore, restoreSummary, preVars, providerVars, retryVars, tickerVars, legacyVars, backupVars>>

\* Step 3, lines 598-618: tx := m.db.Begin().  The transaction is not bound
\* to ctx.
RestoreBegin ==
    /\ rpc = "begin"
    /\ \/ /\ rpc' = "delAlg"
          /\ UNCHANGED <<rres, restoreChan>>
       \/ RestoreReturns("error")
    /\ UNCHANGED <<storeVars, now, pluginVars, txVars, remoteVars, localVars, loadVars,
                   rmeta, rdata, nRestore, restoreSummary, preVars, providerVars, retryVars, tickerVars, legacyVars, backupVars>>

\* The deferred rollback (lines 610-616): the transaction's changes are
\* dropped and the write lock released.
Rollback ==
    /\ txLock' = FALSE
    /\ txAlg' = {}
    /\ txPre' = {}

\* Step 4, lines 624-628: DELETE FROM algorithms, the transaction's first
\* write, which takes the write lock.
RestoreDeleteAlgorithms ==
    /\ rpc = "delAlg"
    /\ \/ /\ txLock' = TRUE
          /\ txAlg' = {}
          /\ txPre' = preset_data
          /\ rpc' = "delPre"
          /\ UNCHANGED <<rres, restoreChan>>
       \/ /\ Rollback
          /\ RestoreReturns("error")
    /\ UNCHANGED <<storeVars, now, pluginVars, remoteVars, localVars, loadVars,
                   rmeta, rdata, nRestore, restoreSummary, preVars, providerVars, retryVars, tickerVars, legacyVars, backupVars>>

\* Step 4, lines 629-633: DELETE FROM preset_data.
RestoreDeletePresetData ==
    /\ rpc = "delPre"
    /\ \/ /\ txPre' = {}
          /\ rpc' = "insert"
          /\ UNCHANGED <<txLock, txAlg, rres, restoreChan>>
       \/ /\ Rollback
          /\ RestoreReturns("error")
    /\ UNCHANGED <<storeVars, now, pluginVars, remoteVars, localVars, loadVars,
                   rmeta, rdata, nRestore, restoreSummary, preVars, providerVars, retryVars, tickerVars, legacyVars, backupVars>>

\* A summary that counts every row of the snapshot as failed.
RestoreCountersAllFailed(doc, okAlg, okPre) ==
    [restoredAlgorithms |-> Cardinality(okAlg),
     failedAlgorithms   |-> Cardinality(doc.algorithms),
     restoredPresetData |-> Cardinality(okPre),
     failedPresetData   |-> Cardinality(doc.preset_data)]

\* Lines 640-641, 652-657, 670-671 and 681-686: the counters after the two
\* loops, when the Create of the rows okAlg and okPre succeeded and that of
\* the document's other rows failed.
RestoreCounters(doc, okAlg, okPre) ==
    [restoredAlgorithms |-> Cardinality(okAlg),
     failedAlgorithms   |-> Cardinality(doc.algorithms \ okAlg),
     restoredPresetData |-> Cardinality(okPre),
     failedPresetData   |-> Cardinality(doc.preset_data \ okPre)]

\* Step 5, lines 636-693: tx.Create for every algorithm and every preset data
\* row of the document; a failed Create is counted and skipped.  Every Create
\* runs the plugin's callback, whatever its result.
RestoreInsert ==
    /\ rpc = "insert"
    /\ \E okAlg \in SUBSET rdata[1].algorithms :
       \E okPre \in SUBSET rdata[1].preset_data :
          /\ txAlg' = okAlg
          /\ txPre' = okPre
          /\ restoreSummary' = <<RestoreCounters(rdata[1], okAlg, okPre)>>
    /\ incs' = afterWrite(afterWrite(incs, "algorithms", Cardinality(rdata[1].algorithms)),
                          "preset_data", Cardinality(rdata[1].preset_data))
    /\ nTrig' = nTrig + Cardinality(rdata[1].algorithms) + Cardinality(rdata[1].preset_data)
    /\ rpc' = "commit"
    /\ UNCHANGED <<storeVars, now, nMut, txLock, remoteVars, localVars, loadVars,
                   rmeta, rdata, rres, restoreChan, nRestore, preVars, providerVars, retryVars, tickerVars, legacyVars, backupVars>>

\* Lines 697-706: tx.Commit(); on failure the deferred rollback runs.
RestoreCommit ==
    /\ rpc = "commit"
    /\ \/ /\ algorithms' = txAlg
          /\ preset_data' = txPre
          /\ rpc' = "meta"
          /\ UNCHANGED <<rres, restoreChan>>
       \/ /\ RestoreReturns("error")
          /\ UNCHANGED <<algorithms, preset_data>>
    /\ Rollback
    /\ UNCHANGED <<versions, jobs, ledger, metaUnreadable, tables, now, pluginVars, remoteVars,
                   localVars, loadVars, rmeta, rdata, nRestore, restoreSummary, preVars, providerVars, retryVars, tickerVars, legacyVars, backupVars>>

\* restoreMetadataFromBackup, lines 754-764: the entry carrying the backup's
\* version, update time and record count.
restoreMetadataFromBackup(b) ==
    LedgerEntry(b.Version, b.LastUpdatedAt, "backup_restore", b.RecordCount)

\* Lines 708-750: the verification only prints; restoreMetadataFromBackup
\* appends the ledger entry (a failure is a warning), and nil is returned.
RestoreMetadata ==
    /\ rpc = "meta"
    /\ \/ ledger' = Append(ledger, restoreMetadataFromBackup(rmeta[1]))
       \/ UNCHANGED ledger
    /\ RestoreReturns("nil")
    /\ UNCHANGED <<algorithms, versions, preset_data, jobs, metaUnreadable, tables, now, pluginVars,
                   txVars, remoteVars, localVars, loadVars, rmeta, rdata, nRestore, restoreSummary,
                   preVars, providerVars, retryVars, tickerVars, legacyVars, backupVars>>

\* ------------------------------------------------ startup reconciliation
\* The snapshots a destination may hold at startup: version v, update time
\* t, and the first algorithm once the version is above 0.
SnapshotAt(v, t) ==
    Doc(IF v > 0 THEN {Min(AlgIds)} ELSE {}, {}, {}, {},
        <<DocMeta(v, IF v > 0 THEN 1 ELSE 0, t)>>)

Snapshots == {SnapshotAt(v, t) : v \in 0..MaxVersion, t \in 0..MaxTime}

\* An object or file holding document d, last modified when d was updated.
Stored(d) == [doc |-> d, mtime |-> d.metadata[1].last_updated_at]

\* The store, the remote destination and the local directory a process may
\* find at startup: a store that is empty or full, with or without a ledger
\* entry; MinIO down, without its bucket, without latest.json or with one;
\* the local directory without a backup or with one.
InitLoad ==
    /\ algorithms \in {{}, AlgIds}
    /\ preset_data = (IF algorithms = {} THEN {} ELSE PreIds)
    /\ versions = {}
    /\ jobs = {}
    /\ ledger \in InitLedgers(Cardinality(algorithms))
    /\ metaUnreadable \in BOOLEAN
    /\ tables = ManagedTables
    /\ now = MaxTime
    /\ minioUp \in BOOLEAN
    /\ bucketExists \in BOOLEAN
    /\ minioUp = FALSE => bucketExists = FALSE
    /\ remoteLatest \in {<<>>} \cup {<<Stored(d)>> : d \in Snapshots}
    /\ (~minioUp \/ ~bucketExists) => remoteLatest = <<>>
    /\ remoteJson = <<>> /\ remoteLatestDB = <<>> /\ remoteDB = <<>>
    /\ remoteFinalDB = <<>>
    /\ localJson \in {<<>>} \cup {(Stored(d).mtime :> Stored(d)) : d \in Snapshots}
    /\ localDB = <<>>
    /\ IdlePlugin /\ NoTx /\ IdleLoad /\ IdleRestore /\ IdleBackup /\ PreIsNow /\ IdleProvider /\ IdleRetry /\ IdleTicker /\ IdleLegacy

NextLoad ==
    \/ LoadFromMinIO
    \/ LoadReceive
    \/ LoadTimeout
    \/ RestoreLoad
    \/ RestoreBegin
    \/ RestoreDeleteAlgorithms
    \/ RestoreDeletePresetData
    \/ RestoreInsert
    \/ RestoreCommit
    \/ RestoreMetadata
    \/ IncRead
    \/ IncCount
    \/ IncWrite
    \/ IncWriteBusy

SpecLoad == InitLoad /\ [][NextLoad]_vars

\* ------------------------------------------------- claims on reconciliation
StoreAsBefore ==
    /\ algorithms = alg0
    /\ preset_data = pre0
    /\ ledger = ledger0

\* C2: once the timeout of a restore that had not completed was reported, the
\* managed tables and the ledger stay equal to their pre-startup content.
C2_TimeoutKeepsStore == toPc = "running" => StoreAsBefore

\* C3: outside the restore transaction the tables algorithms and preset_data
\* hold their pre-restore rows or the rows of the committed reload, and when
\* restoreFromBackup returned an error both tables are unchanged and no ledger
\* entry was appended.
C3_TablesOldOrReloaded ==
    \/ (algorithms = alg0 /\ preset_data = pre0)
    \/ (rpc \in {"meta", "done"} /\ rres # "error"
        /\ algorithms \subseteq rdata[1].algorithms
        /\ preset_data \subseteq rdata[1].preset_data)

C3_AllOrNothing ==
    /\ C3_TablesOldOrReloaded
    /\ (rres = "error" => StoreAsBefore)

\* C5: after a successful restore whose ledger entry was written, and once the
\* background increments have settled, the authoritative ledger entry carries
\* the version of the restored snapshot.
RestoreEntryWritten ==
    \E i \in DOMAIN ledger : ledger[i].UpdatedBy = "backup_restore"

C5_RestoredVersionIsAuthoritative ==
    (rres = "nil" /\ RestoreEntryWritten /\ incs = EmptyBag)
        => MaxVersionOf(ledger) = rmeta[1].Version

\* C6: with the remote destination failing or its bucket missing, a local
\* backup is found and restored by reconciliation whenever the current store
\* is unreadable, has zero records, or has records with an older version.
LocalBackupVersion == MetaOf(localJson[Min(DOMAIN localJson)].doc, 0, "local", 0).Version

C6_LocalBackupUsed ==
    (/\ lpc # "init"
     /\ DOMAIN localJson # {}
     /\ (~minioUp \/ ~bucketExists)
     /\ \/ curMeta = <<>>
        \/ curMeta[1].RecordCount = 0
        \/ curMeta[1].Version < LocalBackupVersion)
        => (nRestore > 0 /\ rmeta[1].Source = "local")

\* C4: with records in the store and at least one backup, the source chosen
\* is a maximum of current, MinIO and local by (version, last_updated_at), and
\* a restore runs exactly when the current store is not such a maximum, from
\* the chosen backup.
Candidates ==
    {curMeta[1]} \cup {minioMeta[i] : i \in DOMAIN minioMeta}
                 \cup {localMeta[i] : i \in DOMAIN localMeta}

IsNewest(c) ==
    \A d \in Candidates :
        \/ d.Version < c.Version
        \/ (d.Version = c.Version /\ d.LastUpdatedAt <= c.LastUpdatedAt)

FirstRun ==
    /\ ledger0 = <<>> /\ alg0 = {} /\ pre0 = {} /\ ~metaUnreadable
    /\ remoteLatest = <<>> /\ DOMAIN localJson = {}

C10_FirstRun ==
    (lpc # "init" /\ FirstRun)
        => /\ lpc = "done" /\ lres = "nil"
           /\ nRestore = 0 /\ rpc = "idle" /\ incs = EmptyBag
           /\ algorithms = {} /\ preset_data = {} /\ versions = {} /\ jobs = {}
           /\ ledger = <<>>
           /\ getDatabaseMetadata[1].Version = 0

C10_Witness == lpc = "done" /\ FirstRun /\ lres = "nil" /\ ~minioUp

\* ------------------------------------------------------------ BackupToMinIO
MaxRuns == 1

\* cleanupLocalBackups keeps the newest 5 backup-*.json and the newest 3
\* db-backup-*.db of ./data/backups.
KeepJson == 5
KeepDB == 3

\* The file or object map f with key k holding v.
Put(f, k, v) == [x \in DOMAIN f \cup {k} |-> IF x = k THEN v ELSE f[x]]

\* The map f without the keys outside S.
Restrict(f, S) == [x \in S |-> f[x]]

\* The bytes of the store's file as os.Open / os.ReadFile find them.
DBImage ==
    [algorithms |-> algorithms, versions |-> versions, preset_data |-> preset_data,
     jobs |-> jobs, ledger |-> ledger]

\* BackupToMinIO returns r before the artefacts are offered.
BackupReturns(r) ==
    /\ bpc' = "done"
    /\ bres' = r

\* Lines 767-774: a run starts by reading the store's metadata.
BackupStart ==
    /\ bpc \in {"idle", "done"}
    /\ nRuns' = nRuns + 1
    /\ bdoc' = <<>>
    /\ bts' = 0
    /\ jsonRemote' = "" /\ jsonLocal' = "" /\ dbRemote' = "" /\ dbLocal' = ""
    /\ bmeta' = getDatabaseMetadata
    /\ IF getDatabaseMetadata = <<>>
       THEN BackupReturns("error")
       ELSE bpc' = "algorithms" /\ bres' = ""
    /\ UNCHANGED <<storeVars, now, pluginVars, txVars, remoteVars, localVars, loadVars,
                   restoreVars, preVars, providerVars, retryVars, tickerVars, legacyVars, cleanups>>

\* A run of BackupToMinIO, of the scheduler or of an earlier Close.
BackupBegin == nRuns < MaxRuns /\ BackupStart

\* Lines 777-780: m.db.Find(&algorithms).
BackupFetchAlgorithms ==
    /\ bpc = "algorithms"
    /\ \/ /\ bdoc' = <<Doc(algorithms, {}, {}, {}, <<>>)>>
          /\ bpc' = "versions"
          /\ UNCHANGED bres
       \/ /\ BackupReturns("error")
          /\ UNCHANGED bdoc
    /\ UNCHANGED <<storeVars, now, pluginVars, txVars, remoteVars, localVars, loadVars,
                   restoreVars, preVars, providerVars, retryVars, tickerVars, legacyVars, bmeta, bts, jsonRemote, jsonLocal, dbRemote,
                   dbLocal, nRuns, cleanups>>

\* Lines 782-791: m.db.Find(&versions).
BackupFetchVersions ==
    /\ bpc = "versions"
    /\ \/ /\ bdoc' = <<[bdoc[1] EXCEPT !.versions = versions]>>
          /\ bpc' = "preset_data"
          /\ UNCHANGED bres
       \/ /\ BackupReturns("error")
          /\ UNCHANGED bdoc
    /\ UNCHANGED <<storeVars, now, pluginVars, txVars, remoteVars, localVars, loadVars,
                   restoreVars, preVars, providerVars, retryVars, tickerVars, legacyVars, bmeta, bts, jsonRemote, jsonLocal, dbRemote,
                   dbLocal, nRuns, cleanups>>

\* Lines 793-796: m.db.Find(&presetData).
BackupFetchPresetData ==
    /\ bpc = "preset_data"
    /\ \/ /\ bdoc' = <<[bdoc[1] EXCEPT !.preset_data = preset_data]>>
          /\ bpc' = "jobs"
          /\ UNCHANGED bres
       \/ /\ BackupReturns("error")
          /\ UNCHANGED bdoc
    /\ UNCHANGED <<storeVars, now, pluginVars, txVars, remoteVars, localVars, loadVars,
                   restoreVars, preVars, providerVars, retryVars, tickerVars, legacyVars, bmeta, bts, jsonRemote, jsonLocal, dbRemote,
                   dbLocal, nRuns, cleanups>>

\* Lines 798-823: m.db.Find(&jobs), the document with its metadata block, and
\* the run's timestamp.
BackupFetchJobs ==
    /\ bpc = "jobs"
    /\ \/ /\ bdoc' = <<[bdoc[1] EXCEPT
                          !.jobs = jobs,
                          !.metadata = <<DocMeta(bmeta[1].Version, bmeta[1].RecordCount,
                                                 bmeta[1].LastUpdatedAt)>>]>>
          /\ bts' = now
          /\ bpc' = "json"
          /\ UNCHANGED bres
       \/ /\ BackupReturns("error")
          /\ UNCHANGED <<bdoc, bts>>
    /\ UNCHANGED <<storeVars, now, pluginVars, txVars, remoteVars, localVars, loadVars,
                   restoreVars, preVars, providerVars, retryVars, tickerVars, legacyVars, bmeta, jsonRemote, jsonLocal, dbRemote,
                   dbLocal, nRuns, cleanups>>

\* backupJSONToMinIO, lines 867-891: PutObject of backup-<ts>.json, then of
\* latest.json; r is "ok", "fail" (the first PutObject fails) or "latest"
\* (the second one fails).
backupJSONToMinIO(r) ==
    /\ r \in {"ok", "latest"} => (minioUp /\ bucketExists)
    /\ remoteJson' = IF r = "fail" THEN remoteJson ELSE Put(remoteJson, bts, bdoc[1])
    /\ remoteLatest' = IF r = "ok" THEN <<[doc |-> bdoc[1], mtime |-> now]>> ELSE remoteLatest

\* saveLocalBackup, lines 894-906: MkdirAll and WriteFile of backup-<ts>.json.
saveLocalBackup(ok) ==
    localJson' = IF ok THEN Put(localJson, bts, [doc |-> bdoc[1], mtime |-> now])
                 ELSE localJson

\* A fallback that is taken whatever the remote publication did.
FallBackAlways(r) == TRUE

\* Lines 835 and 852 (!minioSuccess, !dbSuccess): the local fallback is taken
\* when the remote publication returned an error.
FallBackToLocal(r) == r # "ok"

\* Lines 825-840: the JSON document goes to MinIO, and to the local directory
\* when that failed; a failed local write ends the run.
BackupJSON ==
    /\ bpc = "json"
    /\ \E r \in {"ok", "fail", "latest"} :
          /\ backupJSONToMinIO(r)
          /\ jsonRemote' = IF r = "ok" THEN "ok" ELSE "fail"
          /\ IF FallBackToLocal(r)
             THEN \E ok \in BOOLEAN :
                     /\ saveLocalBackup(ok)
                     /\ jsonLocal' = IF ok THEN "ok" ELSE "fail"
                     /\ IF ok THEN bpc' = "db" /\ UNCHANGED bres
                              ELSE BackupReturns("error")
             ELSE /\ bpc' = "db"
                  /\ UNCHANGED <<jsonLocal, localJson, bres>>
    /\ UNCHANGED <<storeVars, now, pluginVars, txVars, minioUp, bucketExists,
                   remoteLatestDB, remoteDB, remoteFinalDB, localDB, loadVars, restoreVars, preVars, providerVars, retryVars, tickerVars, legacyVars,
                   bmeta, bdoc, bts, dbRemote, dbLocal, nRuns, cleanups>>

\* backupDBFileToMinIO, lines 1054-1097: the store's file goes to
\* db-backup-<ts>.db, then to latest.db; r as for backupJSONToMinIO, "fail"
\* also when the file cannot be opened.
backupDBFileToMinIO(r) ==
    /\ r \in {"ok", "latest"} => (minioUp /\ bucketExists)
    /\ remoteDB' = IF r = "fail" THEN remoteDB ELSE Put(remoteDB, bts, DBImage)
    /\ remoteLatestDB' = IF r = "ok" THEN <<DBImage>> ELSE remoteLatestDB

\* saveLocalDBBackup, lines 909-928: ReadFile of the store's file and
\* WriteFile of db-backup-<ts>.db.
saveLocalDBBackup(ok) ==
    localDB' = IF ok THEN Put(localDB, bts, DBImage) ELSE localDB

\* Lines 842-863: the store's file goes to MinIO, and to the local directory
\* when that failed; then the cleanup is started and nil returned.
BackupDB ==
    /\ bpc = "db"
    /\ \E r \in {"ok", "fail", "latest"} :
          /\ backupDBFileToMinIO(r)
          /\ dbRemote' = IF r = "ok" THEN "ok" ELSE "fail"
          /\ IF FallBackToLocal(r)
             THEN \E ok \in BOOLEAN :
                     /\ saveLocalDBBackup(ok)
                     /\ dbLocal' = IF ok THEN "ok" ELSE "fail"
             ELSE UNCHANGED <<dbLocal, localDB>>
    /\ cleanups' = cleanups + 1
    /\ BackupReturns("nil")
    /\ UNCHANGED <<storeVars, now, pluginVars, txVars, minioUp, bucketExists,
                   remoteLatest, remoteJson, remoteFinalDB, localJson, loadVars, restoreVars,
                   preVars, providerVars, retryVars, tickerVars, legacyVars, bmeta, bdoc, bts, jsonRemote, jsonLocal, nRuns>>

\* files[len(files)-keep:] taken for files[:len(files)-keep]: all but the
\* oldest `keep`.
OldFilesFromTheEnd(names, keep) ==
    {f \in names : Cardinality({g \in names : g < f}) >= keep}

\* files[:len(files)-keep] of the sorted names: all but the newest `keep`.
OldFiles(names, keep) ==
    {f \in names : Cardinality({g \in names : g > f}) >= keep}

\* A remote pruning that removes every object below database-backup/, the
\* pointer objects and final-backup.db included.
PruneRemoteUnfiltered ==
    /\ remoteLatest' = <<>> /\ remoteLatestDB' = <<>> /\ remoteFinalDB' = <<>>
    /\ remoteJson' = <<>> /\ remoteDB' = <<>>
    /\ UNCHANGED <<minioUp, bucketExists>>

\* cleanupOldBackups, lines 932-956: the remote pruning is commented out, no
\* object is listed or removed.
PruneRemote == UNCHANGED remoteVars

\* cleanupOldBackups and cleanupLocalBackups, lines 931-1018: the remote
\* pruning is commented out; locally the files beyond the newest 5 JSON and 3
\* store images are removed, a failed os.Remove being logged.
cleanupOldBackups ==
    /\ cleanups > 0
    /\ cleanups' = cleanups - 1
    /\ \E keptJson \in SUBSET OldFiles(DOMAIN localJson, KeepJson) :
          localJson' = Restrict(localJson, (DOMAIN localJson \ OldFiles(DOMAIN localJson, KeepJson))
                                             \cup keptJson)
    /\ \E keptDB \in SUBSET OldFiles(DOMAIN localDB, KeepDB) :
          localDB' = Restrict(localDB, (DOMAIN localDB \ OldFiles(DOMAIN localDB, KeepDB))
                                         \cup keptDB)
    /\ PruneRemote
    /\ UNCHANGED <<storeVars, now, pluginVars, txVars, loadVars, restoreVars,
                   preVars, providerVars, retryVars, tickerVars, legacyVars, bpc, bmeta, bdoc, bts, bres, jsonRemote, jsonLocal, dbRemote,
                   dbLocal, nRuns>>

\* A second passes.
Tick ==
    /\ now < MaxTime
    /\ now' = now + 1
    /\ UNCHANGED <<storeVars, pluginVars, txVars, remoteVars, localVars, loadVars,
                   restoreVars, preVars, providerVars, retryVars, tickerVars, legacyVars, backupVars>>

\* The backups ./data/backups holds from earlier runs: none, or the number
\* the cleanup keeps, with names older than any this process writes.
OldJson == [ts \in (0 - KeepJson)..(0 - 1) |-> [doc |-> SnapshotAt(0, 0), mtime |-> ts]]
OldDB == [ts \in (0 - KeepDB)..(0 - 1) |->
            [algorithms |-> {}, versions |-> {}, preset_data |-> {}, jobs |-> {},
             ledger |-> <<>>]]

InitBackup ==
    /\ algorithms \in {{}, AlgIds}
    /\ versions = (IF algorithms = {} THEN {} ELSE VerIds)
    /\ preset_data = (IF algorithms = {} THEN {} ELSE PreIds)
    /\ jobs = (IF algorithms = {} THEN {} ELSE JobIds)
    /\ ledger \in InitLedgers(Cardinality(algorithms))
    /\ metaUnreadable \in BOOLEAN
    /\ tables = ManagedTables
    /\ now = 0
    /\ minioUp \in BOOLEAN
    /\ bucketExists \in BOOLEAN
    /\ minioUp = FALSE => bucketExists = FALSE
    /\ remoteLatest = <<>> /\ remoteJson = <<>> /\ remoteLatestDB = <<>> /\ remoteDB = <<>>
    /\ remoteFinalDB = <<>>
    /\ \/ localJson = <<>> /\ localDB = <<>>
       \/ localJson = OldJson /\ localDB = OldDB
    /\ IdlePlugin /\ NoTx /\ IdleLoad /\ IdleRestore /\ IdleBackup /\ PreIsNow /\ IdleProvider /\ IdleRetry /\ IdleTicker /\ IdleLegacy

NextBackup ==
    \/ BackupBegin \/ BackupFetchAlgorithms \/ BackupFetchVersions
    \/ BackupFetchPresetData \/ BackupFetchJobs \/ BackupJSON \/ BackupDB
    \/ cleanupOldBackups \/ Tick

SpecBackup == InitBackup /\ [][NextBackup]_vars

\* C7 as stated: in a finished run, for the JSON snapshot and for the raw
\* copy, the local fallback copy was written if and only if the remote
\* publication of that artefact failed, and the local JSON file holds the
\* document that was offered to the remote destination.
C7_LocalWrittenIffRemoteFailed ==
    bpc = "done"
        => /\ (jsonLocal = "ok") <=> (jsonRemote = "fail")
           /\ (dbLocal = "ok") <=> (dbRemote = "fail")
           /\ jsonLocal = "ok" => (bts \in DOMAIN localJson /\ localJson[bts].doc = bdoc[1])

\* C7, amended: in a finished run, for each artefact, the local fallback write
\* was attempted if and only if the remote publication of that artefact was
\* attempted and failed (the write itself can fail: for the JSON snapshot
\* that ends the run with an error before the raw copy is offered, for the
\* raw copy the run still returns nil), and a written local JSON file holds
\* the document that was offered to the remote destination.
C7_LocalAttemptedIffRemoteFailed ==
    bpc = "done"
        => /\ (jsonLocal # "") <=> (jsonRemote = "fail")
           /\ (dbLocal # "") <=> (dbRemote = "fail")
           /\ jsonLocal = "ok" => (bts \in DOMAIN localJson /\ localJson[bts].doc = bdoc[1])
           /\ jsonLocal = "fail" => (bres = "error" /\ dbRemote = "" /\ dbLocal = "")
           /\ dbRemote # "" => bres = "nil"

\* A run whose JSON snapshot fell back to the local directory and whose raw
\* copy reached MinIO.
C7_Witness ==
    /\ bpc = "done"
    /\ jsonRemote = "fail" /\ jsonLocal = "ok"
    /\ localJson[bts].doc = bdoc[1]
    /\ dbRemote = "ok" /\ dbLocal = ""

\* -------------------------------------------------- backup, then restore
MaxRestores == 2

\* The BackupMetadata of the snapshot the finished run published: latest.json
\* when the remote publication succeeded, the local file otherwise.
PublishedSnapshot ==
    IF jsonRemote = "ok"
    THEN MetaOf(remoteLatest[1].doc, remoteLatest[1].mtime, "minio", 0)
    ELSE MetaOf(localJson[bts].doc, localJson[bts].mtime, "local", bts)

\* The store as the operation under study finds it.
RememberStore ==
    /\ alg0' = algorithms /\ pre0' = preset_data /\ ver0' = versions
    /\ jobs0' = jobs /\ ledger0' = ledger

\* Open and AutoMigrate on a new file give a store with empty tables;
\* restoreFromBackup is then called with the published snapshot.  The source
\* store is remembered.
RestoreIntoEmptyStore ==
    /\ bpc = "done" /\ bres = "nil"
    /\ rpc = "idle" /\ nRestore = 0
    /\ incs = EmptyBag
    /\ RememberStore
    /\ algorithms' = {} /\ versions' = {} /\ preset_data' = {} /\ jobs' = {}
    /\ ledger' = <<>>
    /\ StartRestore(<<PublishedSnapshot>>)
    /\ UNCHANGED <<metaUnreadable, tables, now, pluginVars, txVars, remoteVars, localVars,
                   loadVars, backupVars, providerVars, retryVars, tickerVars, legacyVars>>

\* restoreFromBackup is called again with the same snapshot, after the first
\* call returned nil and the increments it triggered have finished.  The
\* store the first call left is remembered.
RestoreAgain ==
    /\ rpc = "done" /\ rres = "nil"
    /\ nRestore < MaxRestores
    /\ incs = EmptyBag
    /\ RememberStore
    /\ StartRestore(rmeta)
    /\ UNCHANGED <<storeVars, now, pluginVars, txVars, remoteVars, localVars,
                   loadVars, backupVars, providerVars, retryVars, tickerVars, legacyVars>>

\* The source stores: empty, one algorithm with or without a job, or one
\* preset data row; MinIO up or down, and an empty local directory.
SourceStores ==
    {[algorithms |-> {}, preset_data |-> {}, jobs |-> {}],
     [algorithms |-> {Min(AlgIds)}, preset_data |-> {}, jobs |-> {}],
     [algorithms |-> {Min(AlgIds)}, preset_data |-> {}, jobs |-> JobIds],
     [algorithms |-> {}, preset_data |-> {Min(PreIds)}, jobs |-> {}]}

InitRoundTrip ==
    /\ \E s \in SourceStores :
          /\ algorithms = s.algorithms
          /\ preset_data = s.preset_data
          /\ jobs = s.jobs
    /\ versions = {}
    /\ ledger \in InitLedgers(Cardinality(algorithms))
    /\ metaUnreadable = FALSE
    /\ tables = ManagedTables
    /\ now = MaxTime
    /\ minioUp \in BOOLEAN
    /\ bucketExists = minioUp
    /\ remoteLatest = <<>> /\ remoteJson = <<>> /\ remoteLatestDB = <<>> /\ remoteDB = <<>>
    /\ remoteFinalDB = <<>>
    /\ NoLocal
    /\ IdlePlugin /\ NoTx /\ IdleLoad /\ IdleRestore /\ IdleBackup /\ PreIsNow /\ IdleProvider /\ IdleRetry /\ IdleTicker /\ IdleLegacy

NextRoundTrip ==
    \/ BackupBegin \/ BackupFetchAlgorithms \/ BackupFetchVersions
    \/ BackupFetchPresetData \/ BackupFetchJobs \/ BackupJSON \/ BackupDB
    \/ cleanupOldBackups
    \/ RestoreIntoEmptyStore \/ RestoreAgain
    \/ RestoreLoad \/ RestoreBegin \/ RestoreDeleteAlgorithms
    \/ RestoreDeletePresetData \/ RestoreInsert \/ RestoreCommit \/ RestoreMetadata
    \/ IncRead \/ IncCount \/ IncWrite \/ IncWriteBusy

SpecRoundTrip == InitRoundTrip /\ [][NextRoundTrip]_vars

\* restoreFromBackup returned nil for the call under study, every row of the
\* snapshot was inserted, every call appended its ledger entry, and the
\* increments have finished.
RestoreCompleted ==
    /\ rpc = "done" /\ rres = "nil"
    /\ algorithms = rdata[1].algorithms
    /\ preset_data = rdata[1].preset_data
    /\ Cardinality({i \in DOMAIN ledger : ledger[i].UpdatedBy = "backup_restore"}) = nRestore
    /\ incs = EmptyBag

\* C8: after a snapshot of a store was published and restored into an empty
\* store, every managed table has the row count it has in the source store,
\* and the store's (version, record_count) is the source's.
C8_RoundTrip ==
    (nRestore = 1 /\ RestoreCompleted)
        => /\ Cardinality(algorithms) = Cardinality(alg0)
           /\ Cardinality(versions) = Cardinality(ver0)
           /\ Cardinality(preset_data) = Cardinality(pre0)
           /\ Cardinality(jobs) = Cardinality(jobs0)
           /\ MaxVersionOf(ledger) = MaxVersionOf(ledger0)

\* C9: after restoreFromBackup ran a second time with the same snapshot (both
\* runs returned nil and inserted every row), the managed tables and the
\* store's authoritative (version, record_count) are what the first run left.
C9_IdempotentRestore ==
    (/\ nRestore = 2 /\ RestoreCompleted
     /\ alg0 = rdata[1].algorithms /\ pre0 = rdata[1].preset_data)
        => /\ algorithms = alg0 /\ versions = ver0
           /\ preset_data = pre0 /\ jobs = jobs0
           /\ MaxVersionOf(ledger) = MaxVersionOf(ledger0)
           /\ Cardinality(algorithms) = Cardinality(alg0)

\* ------------------------------------------- what reconciliation returns
\* No backup can be had from any destination: MinIO is unreachable, has no
\* bucket or no latest.json, and ./data/backups holds no backup-*.json.
NoBackupAnywhere == getMinIOBackupMetadata = <<>> /\ DOMAIN localJson = {}

\* C11: LoadFromMinIO returns an error only when the store's metadata cannot
\* be read and no backup is available from any destination; in every other
\* outcome it returns nil.
C11_ErrorOnlyWhenUnrecoverable ==
    (lpc = "done" /\ lres = "error") => (lpath = "unreadable" /\ NoBackupAnywhere)

\* --------------------------------------------------- the provider's life
\* Everything but the provider's own state.
engineVars == <<storeVars, now, pluginVars, txVars, remoteVars, localVars, loadVars,
                restoreVars, preVars, backupVars, retryVars, tickerVars, legacyVars>>

\* The call `c` of the lifecycle returns r.
Returned(c, r) == res' = [res EXCEPT ![c] = r]

\* A verification that accepts any journal mode.
AnyJournalMode(mode) == TRUE

\* optimizeDatabase, lines 636-643: the journal mode read back is "wal".
WALEnabled(mode) == mode = "wal"

\* Open, lines 557-590: gorm.Open, p.db = db, optimizeDatabase, and only then
\* `go p.walCheckpointWorker()`; on a failed verification nil and an error are
\* returned, p.db staying set.
Open ==
    /\ ppc = "new"
    /\ handle' = "open"
    /\ IF WALEnabled(journal)
       THEN /\ worker' = "running"
            /\ Returned("Open", "nil")
            /\ ppc' = "opened"
       ELSE /\ Returned("Open", "error")
            /\ ppc' = "failed"
            /\ UNCHANGED worker
    /\ UNCHANGED <<engineVars, journal, stopCheckpoint, stopBackup, sched, schedRun,
                   schedStarts, cpc, nClose, nFinal, ckpts, closeCkpt>>

\* Configure, lines 650-675: pool limits, InstallVersioning and
\* initBackupManager, whose failures are warnings.
Configure ==
    /\ ppc = "opened"
    /\ ppc' = "configured"
    /\ Returned("Configure", "nil")
    /\ UNCHANGED <<engineVars, journal, handle, worker, stopCheckpoint, stopBackup,
                   sched, schedRun, schedStarts, cpc, nClose, nFinal, ckpts, closeCkpt>>

\* models.AutoMigrate: the tables exist afterwards.
AutoMigrate ==
    /\ ppc = "configured"
    /\ ppc' = "migrated"
    /\ Returned("AutoMigrate", "nil")
    /\ UNCHANGED <<engineVars, journal, handle, worker, stopCheckpoint, stopBackup,
                   sched, schedRun, schedStarts, cpc, nClose, nFinal, ckpts, closeCkpt>>

\* PostMigrate, line 702: p.backupManager.LoadFromMinIO().
PostMigrateLoad == ppc = "migrated" /\ LoadFromMinIO

\* A PostMigrate that returns the error of LoadFromMinIO.
PostMigratePropagates(r) == r

\* PostMigrate, lines 702-712: an error of LoadFromMinIO is printed as a
\* warning; nil is returned.
PostMigrateResult(r) == "nil"

\* PostMigrate, lines 702-712, once LoadFromMinIO has returned: the backup
\* scheduler is started (StartBackupScheduler, lines 1021-1040, returns nil).
PostMigrate ==
    /\ ppc = "migrated"
    /\ lpc = "done"
    /\ Returned("PostMigrate", PostMigrateResult(lres))
    /\ IF PostMigrateResult(lres) = "nil"
       THEN sched' = "running" /\ ppc' = "serving"
       ELSE sched' = sched /\ ppc' = "failed"
    /\ UNCHANGED <<engineVars, journal, handle, worker, stopCheckpoint, stopBackup,
                   schedRun, schedStarts, cpc, nClose, nFinal, ckpts, closeCkpt>>

\* What a query on the handle returns: an error when p.db is nil or the pool
\* is closed.
Query == IF handle = "open" THEN "nil" ELSE "error"

\* Ping, lines 815-826.
Ping ==
    /\ ppc = "serving"
    /\ ppc' = "pinged"
    /\ Returned("Ping", Query)
    /\ UNCHANGED <<engineVars, journal, handle, worker, stopCheckpoint, stopBackup,
                   sched, schedRun, schedStarts, cpc, nClose, nFinal, ckpts, closeCkpt>>

\* HealthCheck, lines 829-858.
HealthCheck ==
    /\ ppc = "pinged"
    /\ ppc' = "healthy"
    /\ Returned("HealthCheck", Query)
    /\ UNCHANGED <<engineVars, journal, handle, worker, stopCheckpoint, stopBackup,
                   sched, schedRun, schedStarts, cpc, nClose, nFinal, ckpts, closeCkpt>>

\* GetStats, lines 861-901.
GetStats ==
    /\ ppc = "healthy"
    /\ ppc' = "stats"
    /\ Returned("GetStats", Query)
    /\ UNCHANGED <<engineVars, journal, handle, worker, stopCheckpoint, stopBackup,
                   sched, schedRun, schedStarts, cpc, nClose, nFinal, ckpts, closeCkpt>>

MaxClose == 2

\* A restore transaction is open: after m.db.Begin() succeeded and before
\* its commit or rollback.
InTx == rpc \in {"delAlg", "delPre", "insert", "commit"}

\* checkpoint, lines 742-759: PRAGMA wal_checkpoint(TRUNCATE) on the handle;
\* on a closed pool Exec fails and nothing is checkpointed.
checkpoint(who) ==
    ckpts' = IF handle = "open" THEN ckpts \cup {[by |-> who, inTx |-> InTx]} ELSE ckpts

\* walCheckpointWorker, lines 727-730: a tick of the ticker.
WorkerTick ==
    /\ worker = "running"
    /\ checkpoint("tick")
    /\ UNCHANGED <<engineVars, ppc, journal, handle, worker, stopCheckpoint, stopBackup,
                   sched, schedRun, schedStarts, cpc, nClose, nFinal, closeCkpt, res>>

\* walCheckpointWorker, lines 731-736: stopCheckpoint is closed; a last
\* checkpoint, and the goroutine returns.
WorkerStop ==
    /\ worker = "running"
    /\ stopCheckpoint
    /\ checkpoint("final")
    /\ worker' = "stopped"
    /\ UNCHANGED <<engineVars, ppc, journal, handle, stopCheckpoint, stopBackup,
                   sched, schedRun, schedStarts, cpc, nClose, nFinal, closeCkpt, res>>

\* When a scheduled run starts, relative to Close's final publication.
Phase ==
    IF nFinal = 0 THEN "before" ELSE IF cpc = "backup" THEN "during" ELSE "after"

\* StartBackupScheduler, lines 1030-1034: a tick of the ticker starts
\* BackupToMinIO in the scheduler's goroutine (select takes any ready case, so
\* a tick can win over a closed stopBackup).
SchedTick ==
    /\ sched = "running"
    /\ ~schedRun
    /\ tickC = 0
    /\ schedRun' = TRUE
    /\ schedStarts' = schedStarts \cup {Phase}
    /\ UNCHANGED <<engineVars, ppc, journal, handle, worker, stopCheckpoint, stopBackup,
                   sched, cpc, nClose, nFinal, ckpts, closeCkpt, res>>

\* A scheduler whose goroutine returns when a run has ended.
SchedRunEndFatal ==
    /\ schedRun
    /\ schedRun' = FALSE
    /\ sched' = "stopped"
    /\ UNCHANGED <<engineVars, ppc, journal, handle, worker, stopCheckpoint, stopBackup,
                   schedStarts, cpc, nClose, nFinal, ckpts, closeCkpt, res>>

\* StartBackupScheduler, lines 1031-1033: the scheduled BackupToMinIO
\* returns; its error is printed and the loop goes on.
SchedRunEnd ==
    /\ schedRun
    /\ schedRun' = FALSE
    /\ UNCHANGED <<engineVars, ppc, journal, handle, worker, stopCheckpoint, stopBackup,
                   sched, schedStarts, cpc, nClose, nFinal, ckpts, closeCkpt, res>>

\* StartBackupScheduler, lines 1028-1029: stopBackup is closed, the goroutine
\* returns.
SchedStop ==
    /\ sched = "running"
    /\ ~schedRun
    /\ stopBackup
    /\ sched' = "stopped"
    /\ UNCHANGED <<engineVars, ppc, journal, handle, worker, stopCheckpoint, stopBackup,
                   schedRun, schedStarts, cpc, nClose, nFinal, ckpts, closeCkpt, res>>

\* A Close that goes from closing stopCheckpoint straight to closing the pool.
CloseAfterWithoutCheckpoint(pc) ==
    CASE pc = "backup" -> "dbfile"
      [] pc = "dbfile" -> "stop"
      [] pc = "stop" -> "stopCkpt"
      [] pc = "stopCkpt" -> "closeDB"
      [] pc = "ckpt" -> "closeDB"
      [] pc = "closeDB" -> "done"

\* Close, lines 762-807: the order of its steps.
CloseAfter(pc) ==
    CASE pc = "backup" -> "dbfile"
      [] pc = "dbfile" -> "stop"
      [] pc = "stop" -> "stopCkpt"
      [] pc = "stopCkpt" -> "ckpt"
      [] pc = "ckpt" -> "closeDB"
      [] pc = "closeDB" -> "done"

\* Close panics: close of a closed channel.
ClosePanics ==
    /\ cpc' = "done"
    /\ Returned("Close", "panic")

\* Close, lines 762-766: the final BackupToMinIO is called.
Close ==
    /\ ppc = "stats"
    /\ cpc \in {"idle", "done"}
    /\ res["Close"] # "panic"
    /\ nClose < MaxClose
    /\ nClose' = nClose + 1
    /\ nFinal' = nFinal + 1
    /\ cpc' = "backup"
    /\ closeCkpt' = <<>>
    /\ Returned("Close", "")
    /\ UNCHANGED <<engineVars, ppc, journal, handle, worker, stopCheckpoint, stopBackup,
                   sched, schedRun, schedStarts, ckpts>>

\* Close, lines 766-768: the final BackupToMinIO has returned; an error is a
\* warning.
CloseBackup ==
    /\ cpc = "backup"
    /\ cpc' = CloseAfter(cpc)
    /\ UNCHANGED <<engineVars, ppc, journal, handle, worker, stopCheckpoint, stopBackup,
                   sched, schedRun, schedStarts, nClose, nFinal, ckpts, closeCkpt, res>>

\* BackupDBFile, lines 1100-1143: VACUUM INTO a local file, then PutObject of
\* database-backup/final-backup.db; either can fail.
BackupDBFile ==
    \/ /\ handle = "open" /\ minioUp /\ bucketExists
       /\ remoteFinalDB' = <<DBImage>>
    \/ UNCHANGED remoteFinalDB

\* Close, lines 770-776: BackupDBFile; an error is a warning.
CloseDBFile ==
    /\ cpc = "dbfile"
    /\ cpc' = CloseAfter(cpc)
    /\ BackupDBFile
    /\ UNCHANGED <<storeVars, now, pluginVars, txVars, minioUp, bucketExists, remoteLatest,
                   remoteJson, remoteLatestDB, remoteDB, localVars, loadVars, restoreVars,
                   preVars, backupVars, retryVars, tickerVars, legacyVars, ppc, journal, handle, worker, stopCheckpoint, stopBackup,
                   sched, schedRun, schedStarts, nClose, nFinal, ckpts, closeCkpt, res>>

\* Close, line 778, and Stop, lines 1043-1046: close(m.stopBackup).
CloseStop ==
    /\ cpc = "stop"
    /\ IF stopBackup
       THEN ClosePanics /\ UNCHANGED stopBackup
       ELSE stopBackup' = TRUE /\ cpc' = CloseAfter(cpc) /\ UNCHANGED res
    /\ UNCHANGED <<engineVars, ppc, journal, handle, worker, stopCheckpoint,
                   sched, schedRun, schedStarts, nClose, nFinal, ckpts, closeCkpt>>

\* Close, lines 781-785: close(p.stopCheckpoint) and a sleep of 100 ms.
CloseStopCheckpoint ==
    /\ cpc = "stopCkpt"
    /\ IF stopCheckpoint
       THEN ClosePanics /\ UNCHANGED stopCheckpoint
       ELSE stopCheckpoint' = TRUE /\ cpc' = CloseAfter(cpc) /\ UNCHANGED res
    /\ UNCHANGED <<engineVars, ppc, journal, handle, worker, stopBackup,
                   sched, schedRun, schedStarts, nClose, nFinal, ckpts, closeCkpt>>

\* Close, lines 787-794: the last checkpoint; its error is a warning.
CloseCheckpoint ==
    /\ cpc = "ckpt"
    /\ checkpoint("close")
    /\ closeCkpt' = <<[stopped |-> stopCheckpoint, handle |-> handle]>>
    /\ cpc' = CloseAfter(cpc)
    /\ UNCHANGED <<engineVars, ppc, journal, handle, worker, stopCheckpoint, stopBackup,
                   sched, schedRun, schedStarts, nClose, nFinal, res>>

\* Close, lines 796-806: PRAGMA optimize and sqlDB.Close().
CloseHandle ==
    /\ cpc = "closeDB"
    /\ handle' = "closed"
    /\ cpc' = CloseAfter(cpc)
    /\ Returned("Close", "nil")
    /\ UNCHANGED <<engineVars, ppc, journal, worker, stopCheckpoint, stopBackup,
                   sched, schedRun, schedStarts, nClose, nFinal, ckpts, closeCkpt>>

\* What a process finds at startup: a new store file, readable or not, on a
\* file system that keeps WAL mode or not; MinIO down, or up with or without latest.json; ./data/backups with
\* or without a backup.
InitLife ==
    /\ algorithms = {}
    /\ preset_data = {}
    /\ versions = {}
    /\ jobs = {}
    /\ ledger = <<>>
    /\ metaUnreadable \in BOOLEAN
    /\ tables = ManagedTables
    /\ now = MaxTime
    /\ minioUp \in BOOLEAN
    /\ bucketExists = minioUp
    /\ remoteLatest \in {<<>>, <<Stored(SnapshotAt(MaxVersion, MaxTime))>>}
    /\ ~minioUp => remoteLatest = <<>>
    /\ remoteJson = <<>> /\ remoteLatestDB = <<>> /\ remoteDB = <<>>
    /\ remoteFinalDB = <<>>
    /\ localJson \in {<<>>, (MaxTime :> Stored(SnapshotAt(MaxVersion, MaxTime)))}
    /\ minioUp => localJson = <<>>
    /\ localDB = <<>>
    /\ journal \in {"wal", "delete"}
    /\ IdlePlugin /\ NoTx /\ IdleLoad /\ IdleRestore /\ IdleBackup /\ PreIsNow
    /\ NewProvider /\ IdleRetry /\ IdleTicker /\ IdleLegacy

NextLife ==
    \/ Open \/ Configure \/ AutoMigrate \/ PostMigrateLoad \/ PostMigrate
    \/ Ping \/ HealthCheck \/ GetStats
    \/ Close \/ CloseBackup \/ CloseDBFile \/ CloseStop \/ CloseStopCheckpoint
    \/ CloseCheckpoint \/ CloseHandle
    \/ WorkerTick \/ WorkerStop \/ SchedTick \/ SchedRunEnd \/ SchedStop
    \/ LoadReceive \/ LoadTimeout
    \/ RestoreLoad \/ RestoreBegin \/ RestoreDeleteAlgorithms
    \/ RestoreDeletePresetData \/ RestoreInsert \/ RestoreCommit \/ RestoreMetadata
    \/ IncRead \/ IncCount \/ IncWrite \/ IncWriteBusy

SpecLife == InitLife /\ [][NextLife]_vars

\* C12: when the current store is unreadable and no backup is found,
\* PostMigrate returns the error of the reconciliation to its caller and the
\* backup scheduler is not started.
C12_UnrecoverableBlocksStartup ==
    (res["PostMigrate"] # "" /\ lres = "error" /\ lpath = "unreadable" /\ NoBackupAnywhere)
        => (res["PostMigrate"] = "error" /\ sched = "none")

\* The run of provider_test.go: a new, readable store file that keeps WAL
\* mode, MinIO unreachable, and Close called once.
DegradedRun == ~minioUp /\ ~metaUnreadable /\ journal = "wal" /\ nClose <= 1

\* C13: with MinIO unreachable and a fresh store file, every step of the
\* lifecycle Open, Configure, AutoMigrate, PostMigrate, Ping, HealthCheck,
\* GetStats, Close that has returned has returned success.
C13_DegradedLifecycleSucceeds ==
    DegradedRun => \A c \in LifecycleCalls : res[c] \in {"", "nil"}

\* The whole lifecycle has returned success although the reconciliation
\* reported an error.
C13_Witness ==
    /\ DegradedRun
    /\ lpc = "done" /\ lres = "error"
    /\ \A c \in LifecycleCalls : res[c] = "nil"
    /\ handle = "closed"

\* C14: no WAL checkpoint executes while a restore transaction is in
\* progress, between its begin and its commit or rollback.
C14_NoCheckpointInsideRestoreTx == \A k \in ckpts : ~k.inTx

\* C16: on Close the final publication runs exactly once and returns before
\* the handle is closed, no scheduled publication runs while it runs, and
\* none starts during or after it.
C16_FinalPublicationAlone ==
    nClose <= 1 =>
        /\ handle = "closed" => nFinal = 1
        /\ ~(cpc = "backup" /\ schedRun)
        /\ schedStarts \subseteq {"before"}

\* C17: every Close of an opened provider executes a checkpoint after the
\* checkpoint worker was told to stop (stopCheckpoint closed) and before the
\* handle is closed.
C17_CheckpointBeforeHandleClosed ==
    res["Close"] = "nil" => closeCkpt = <<[stopped |-> TRUE, handle |-> "open"]>>

\* A Close has returned and its checkpoint was executed on the open handle.
C17_Witness ==
    /\ res["Close"] = "nil"
    /\ handle = "closed"
    /\ \E k \in ckpts : k.by = "close"

\* C18: Close returns without a panic when the checkpoint worker has already
\* stopped, which includes a second Close of the same provider.
C18_CloseToleratesStoppedWorker == res["Close"] # "panic"

\* C19: when the journal mode read back on Open is not WAL, Open returns an
\* error (and a nil handle) and the checkpoint worker is not started; the
\* worker is started only after WAL mode was verified.
C19_NoWALNoWorker ==
    /\ (res["Open"] # "" /\ journal # "wal") => (res["Open"] = "error" /\ worker = "none")
    /\ worker # "none" => journal = "wal"

\* Open has failed on a store that did not keep WAL mode.
C19_Witness == res["Open"] = "error" /\ journal = "delete" /\ worker = "none"

\* One API write commits while a run of BackupToMinIO is in progress or about
\* to start; the plugin's goroutine follows it.
BackupWrite == nMut = 0 /\ Mutate

\* A store with rows and a ledger, MinIO reachable: a run of BackupToMinIO
\* with one concurrent writer.
InitBackupWrites ==
    /\ algorithms \in {{}, AlgIds}
    /\ versions = (IF algorithms = {} THEN {} ELSE VerIds)
    /\ preset_data = (IF algorithms = {} THEN {} ELSE PreIds)
    /\ jobs = (IF algorithms = {} THEN {} ELSE JobIds)
    /\ ledger \in InitLedgers(Cardinality(algorithms))
    /\ metaUnreadable = FALSE
    /\ tables = ManagedTables
    /\ now = 0
    /\ minioUp = TRUE /\ bucketExists = TRUE
    /\ remoteLatest = <<>> /\ remoteJson = <<>> /\ remoteLatestDB = <<>> /\ remoteDB = <<>>
    /\ remoteFinalDB = <<>>
    /\ NoLocal
    /\ IdlePlugin /\ NoTx /\ IdleLoad /\ IdleRestore /\ IdleBackup /\ PreIsNow /\ IdleProvider /\ IdleRetry /\ IdleTicker /\ IdleLegacy

NextBackupWrites ==
    \/ BackupBegin \/ BackupFetchAlgorithms \/ BackupFetchVersions
    \/ BackupFetchPresetData \/ BackupFetchJobs \/ BackupJSON \/ BackupDB
    \/ BackupWrite \/ IncRead \/ IncCount \/ IncWrite

SpecBackupWrites == InitBackupWrites /\ [][NextBackupWrites]_vars

\* Document d is the store's content at the instant where the tables were a,
\* v, p, j and the ledger was l.
SnapshotOf(d, a, v, p, j, l) ==
    /\ d.algorithms = a /\ d.versions = v /\ d.preset_data = p /\ d.jobs = j
    /\ d.metadata[1].version = FirstByVersionDesc(l).Version
    /\ d.metadata[1].record_count = Cardinality(a)

\* C15: the document of a run of BackupToMinIO is the content of the store at
\* one instant: with one write, the store before the write, after the write
\* and before its ledger entry, or after both.
C15_ReadConsistent ==
    (bdoc # <<>> /\ bdoc[1].metadata # <<>>) =>
        \/ SnapshotOf(bdoc[1], alg0, ver0, pre0, jobs0, ledger0)
        \/ SnapshotOf(bdoc[1], algorithms, versions, preset_data, jobs, ledger0)
        \/ SnapshotOf(bdoc[1], algorithms, versions, preset_data, jobs, ledger)

KeepRemoteJson == 10
KeepRemoteDB == 5

\* The objects MinIO holds from earlier runs: as many timestamped snapshots
\* and raw copies as the remote retention allows, older than any this
\* process writes.
OldRemoteJson == [ts \in (0 - KeepRemoteJson)..(0 - 1) |-> SnapshotAt(0, 0)]
OldRemoteDB ==
    [ts \in (0 - KeepRemoteDB)..(0 - 1) |->
        [algorithms |-> {}, versions |-> {}, preset_data |-> {}, jobs |-> {},
         ledger |-> <<>>]]

\* A store with a reachable MinIO that earlier runs have filled up to the
\* retention limits, and a local directory that is empty or equally full.
InitRetention ==
    /\ algorithms \in {{}, AlgIds}
    /\ versions = (IF algorithms = {} THEN {} ELSE VerIds)
    /\ preset_data = (IF algorithms = {} THEN {} ELSE PreIds)
    /\ jobs = (IF algorithms = {} THEN {} ELSE JobIds)
    /\ ledger \in InitLedgers(Cardinality(algorithms))
    /\ metaUnreadable = FALSE
    /\ tables = ManagedTables
    /\ now = 0
    /\ minioUp = TRUE /\ bucketExists = TRUE
    /\ remoteLatest = <<Stored(SnapshotAt(0, 0))>> /\ remoteJson = OldRemoteJson
    /\ remoteLatestDB = <<OldRemoteDB[0 - 1]>> /\ remoteDB = OldRemoteDB
    /\ remoteFinalDB = <<OldRemoteDB[0 - 1]>>
    /\ \/ localJson = <<>> /\ localDB = <<>>
       \/ localJson = OldJson /\ localDB = OldDB
    /\ IdlePlugin /\ NoTx /\ IdleLoad /\ IdleRestore /\ IdleBackup /\ PreIsNow /\ IdleProvider /\ IdleRetry /\ IdleTicker /\ IdleLegacy

SpecRetention == InitRetention /\ [][NextBackup]_vars

\* The timestamped objects are the newest `keep` of all that were ever there.
NewestKept(names, keep) == \A f \in names : Cardinality({g \in names : g > f}) < keep

\* C20: after the pruning that follows a run of BackupToMinIO, MinIO holds at
\* most 10 timestamped snapshots and at most 5 timestamped raw copies, the
\* newest ones.
C20_RemoteRetention ==
    (bpc = "done" /\ bres = "nil" /\ cleanups = 0)
        => /\ Cardinality(DOMAIN remoteJson) <= KeepRemoteJson
           /\ Cardinality(DOMAIN remoteDB) <= KeepRemoteDB
           /\ NewestKept(DOMAIN remoteJson, KeepRemoteJson)
           /\ NewestKept(DOMAIN remoteDB, KeepRemoteDB)

\* The newest `keep` of the names.
Newest(names, keep) == {f \in names : Cardinality({g \in names : g > f}) < keep}

\* A step of the cleanup goroutine.
CleanupStep == cleanups' < cleanups

C22_PointersSurvivePruning ==
    [][CleanupStep => UNCHANGED <<remoteLatest, remoteLatestDB, remoteFinalDB>>]_vars

\* A cleanup has run on a bucket that holds more timestamped objects than the
\* retention counts, and the three objects are there.
C22_Witness ==
    /\ bpc = "done" /\ cleanups = 0
    /\ Cardinality(DOMAIN remoteJson) > KeepRemoteJson
    /\ Cardinality(DOMAIN remoteDB) > KeepRemoteDB
    /\ remoteLatest # <<>> /\ remoteLatestDB # <<>> /\ remoteFinalDB # <<>>

\* C23: in a finished run of BackupToMinIO the ledger maximum inside the raw
\* copy of the store's file, remote or local, equals metadata.version of the
\* run's structured snapshot.
C23_RawCopyMatchesSnapshot ==
    (bpc = "done" /\ bres = "nil") =>
        /\ bts \in DOMAIN remoteDB =>
              MaxVersionOf(remoteDB[bts].ledger) = bdoc[1].metadata[1].version
        /\ bts \in DOMAIN localDB =>
              MaxVersionOf(localDB[bts].ledger) = bdoc[1].metadata[1].version

\* Close's final BackupToMinIO, called after the scheduled runs.
FinalBackupBegin == nRuns = MaxRuns /\ BackupStart

\* A serving store, MinIO reachable or not: the scheduled runs, then the
\* final run of Close, with one API write in between and the clock going on
\* or not.
InitTwoRuns ==
    /\ algorithms \in {{}, AlgIds}
    /\ versions = (IF algorithms = {} THEN {} ELSE VerIds)
    /\ preset_data = (IF algorithms = {} THEN {} ELSE PreIds)
    /\ jobs = (IF algorithms = {} THEN {} ELSE JobIds)
    /\ ledger \in InitLedgers(Cardinality(algorithms))
    /\ metaUnreadable = FALSE
    /\ tables = ManagedTables
    /\ now = 0
    /\ minioUp \in BOOLEAN /\ bucketExists = minioUp
    /\ remoteLatest = <<>> /\ remoteJson = <<>> /\ remoteLatestDB = <<>> /\ remoteDB = <<>>
    /\ remoteFinalDB = <<>>
    /\ NoLocal
    /\ IdlePlugin /\ NoTx /\ IdleLoad /\ IdleRestore /\ IdleBackup /\ PreIsNow /\ IdleProvider /\ IdleRetry /\ IdleTicker /\ IdleLegacy

NextTwoRuns ==
    \/ BackupBegin \/ FinalBackupBegin \/ BackupFetchAlgorithms \/ BackupFetchVersions
    \/ BackupFetchPresetData \/ BackupFetchJobs \/ BackupJSON \/ BackupDB
    \/ BackupWrite \/ IncRead \/ IncCount \/ IncWrite \/ Tick

SpecTwoRuns == InitTwoRuns /\ [][NextTwoRuns]_vars

\* C24: a timestamped snapshot, remote or local, that was written is never
\* overwritten with different content by a later run.
C24_SnapshotImmutable ==
    [][/\ \A ts \in DOMAIN remoteJson \cap DOMAIN remoteJson' :
             remoteJson'[ts] = remoteJson[ts]
       /\ \A ts \in DOMAIN localJson \cap DOMAIN localJson' :
             localJson'[ts].doc = localJson[ts].doc]_vars

\* --------------------------------------------------- the retry wrappers
RetryBound == 2

\* Error messages an operation can return, as the parts they are made of: a
\* driver's message alone, or the same message wrapped by the operation.
ErrorMessages ==
    {<<"database is locked">>, <<"SQLITE_BUSY">>, <<"SQLITE_LOCKED">>,
     <<"exec failed: ", "database is locked">>, <<"no such table">>}

\* strings.Contains(errStr, sub).
Contains(msg, sub) == \E k \in DOMAIN msg : msg[k] = sub

\* isSQLiteBusyError, sqlite.go lines 986-994: the message equals one of three.
isSQLiteBusyError(msg) ==
    msg \in {<<"database is locked">>, <<"database table is locked">>, <<"SQLITE_BUSY">>}

\* isRetryableError, part_021 lines 152-173: the message contains one of five.
isRetryableError(msg) ==
    \E sub \in {"database is locked", "database table is locked", "SQLITE_BUSY",
                "SQLITE_LOCKED", "cannot start a transaction within a transaction"} :
        Contains(msg, sub)

Retryable(fn, msg) ==
    IF fn = "ExecuteWithRetry" THEN isSQLiteBusyError(msg) ELSE isRetryableError(msg)

RECURSIVE Pow2(_)
Pow2(n) == IF n = 0 THEN 1 ELSE 2 * Pow2(n - 1)

\* The backoff computed after failed attempt i, in milliseconds:
\* (1<<i) * 10ms in ExecuteWithRetry, (1<<attempt) * 100ms in
\* TransactionWithRetry.
Backoff(fn, i) == Pow2(i) * (IF fn = "ExecuteWithRetry" THEN 10 ELSE 100)

\* ExecuteWithRetry calls time.Sleep(backoff) (line 977); TransactionWithRetry
\* only prints the backoff (part_021 lines 141-147).
Sleeps(fn) == fn = "ExecuteWithRetry"

Invocation(out) == [ev |-> "call", out |-> out]
Sleep(ms) == [ev |-> "sleep", ms |-> ms]

RetryReturns(kind, err) ==
    /\ retryRes' = <<[kind |-> kind, err |-> err]>>
    /\ retryPc' = "done"

\* ExecuteWithRetry, lines 950-961: p.db == nil returns an error, else the
\* loop starts with i = 0.
ExecuteWithRetry(mr) ==
    /\ retryPc = "idle"
    /\ retryFn' = "ExecuteWithRetry"
    /\ maxRetries' = mr
    /\ IF handle = "none"
       THEN RetryReturns("error", <<<<"database not initialized">>>>)
       ELSE retryPc' = "loop" /\ UNCHANGED retryRes
    /\ UNCHANGED <<storeVars, now, pluginVars, txVars, remoteVars, localVars, loadVars,
                   restoreVars, preVars, backupVars, providerVars, tickerVars, legacyVars, attempt, lastErr, trace>>

\* TransactionWithRetry, part_021 lines 122-125: the loop starts with
\* attempt = 0.
TransactionWithRetry(mr) ==
    /\ retryPc = "idle"
    /\ retryFn' = "TransactionWithRetry"
    /\ maxRetries' = mr
    /\ retryPc' = "loop"
    /\ UNCHANGED <<storeVars, now, pluginVars, txVars, remoteVars, localVars, loadVars,
                   restoreVars, preVars, backupVars, providerVars, tickerVars, legacyVars, attempt, lastErr, trace,
                   retryRes>>

\* One iteration of `for i := 0; i <= maxRetries; i++`: the operation is
\* invoked; nil is returned at once, an error that is not retryable is
\* returned as it is, and a retryable one is remembered, followed by the
\* sleep when i < maxRetries.
RetryIteration ==
    /\ retryPc = "loop"
    /\ attempt <= maxRetries
    /\ \E out \in {<<>>} \cup {<<msg>> : msg \in ErrorMessages} :
          IF out = <<>>
          THEN /\ trace' = Append(trace, Invocation(out))
               /\ RetryReturns("nil", <<>>)
               /\ UNCHANGED <<attempt, lastErr>>
          ELSE /\ lastErr' = out
               /\ IF ~Retryable(retryFn, out[1])
                  THEN /\ trace' = Append(trace, Invocation(out))
                       /\ RetryReturns("error", out)
                       /\ UNCHANGED attempt
                  ELSE /\ trace' = IF attempt < maxRetries /\ Sleeps(retryFn)
                                   THEN trace \o <<Invocation(out), Sleep(Backoff(retryFn, attempt))>>
                                   ELSE Append(trace, Invocation(out))
                       /\ attempt' = attempt + 1
                       /\ UNCHANGED <<retryPc, retryRes>>
    /\ UNCHANGED <<storeVars, now, pluginVars, txVars, remoteVars, localVars, loadVars,
                   restoreVars, preVars, backupVars, providerVars, tickerVars, legacyVars, retryFn, maxRetries>>

\* The loop is left: fmt.Errorf("... %w", lastErr).
RetryExhausted ==
    /\ retryPc = "loop"
    /\ attempt > maxRetries
    /\ RetryReturns("wrapped", lastErr)
    /\ UNCHANGED <<storeVars, now, pluginVars, txVars, remoteVars, localVars, loadVars,
                   restoreVars, preVars, backupVars, providerVars, tickerVars, legacyVars, retryFn, maxRetries,
                   attempt, lastErr, trace>>

\* A provider after Open, Configure, AutoMigrate and PostMigrate.
ServingProvider ==
    /\ ppc = "serving" /\ handle = "open" /\ worker = "running" /\ journal = "wal"
    /\ stopCheckpoint = FALSE /\ stopBackup = FALSE
    /\ sched = "running" /\ schedRun = FALSE /\ schedStarts = {}
    /\ cpc = "idle" /\ nClose = 0 /\ nFinal = 0
    /\ ckpts = {} /\ closeCkpt = <<>>
    /\ res = [c \in LifecycleCalls |->
                 IF c \in {"Open", "Configure", "AutoMigrate", "PostMigrate"} THEN "nil" ELSE ""]

\* A provider that is new or serving, on which a retried operation is called
\* with any int as maxRetries (here -1 .. RetryBound).
InitRetry ==
    /\ algorithms = {} /\ versions = {} /\ preset_data = {} /\ jobs = {}
    /\ ledger = <<>> /\ metaUnreadable = FALSE
    /\ tables = ManagedTables
    /\ now = 0
    /\ NoRemote /\ NoLocal
    /\ IdlePlugin /\ NoTx /\ IdleLoad /\ IdleRestore /\ IdleBackup /\ PreIsNow
    /\ IdleProvider \/ ServingProvider
    /\ IdleRetry /\ IdleTicker /\ IdleLegacy

NextRetry ==
    \/ \E mr \in (0 - 1)..RetryBound : ExecuteWithRetry(mr)
    \/ \E mr \in (0 - 1)..RetryBound : TransactionWithRetry(mr)
    \/ RetryIteration
    \/ RetryExhausted

SpecRetry == InitRetry /\ [][NextRetry]_vars

IsCall(e) == e.ev = "call"
Calls == SelectSeq(trace, IsCall)

C26_BackoffBetweenAttempts ==
    retryPc = "done" =>
        /\ \A k \in 1..(Len(trace) - 1) :
              /\ (trace[k].ev = "call") => (trace[k + 1].ev = "sleep")
              /\ (trace[k].ev = "sleep") => (trace[k + 1].ev = "call")
        /\ \A k \in 1..Len(trace) :
              trace[k].ev = "sleep" => trace[k].ms = Backoff(retryFn, (k \div 2) - 1)
        /\ trace # <<>> => trace[Len(trace)].ev = "call"

\* C27: every committed create, update or delete on a managed table
\* (algorithms, versions, jobs, preset_data) appends a ledger entry: once the
\* plugin's goroutines have finished the ledger has one entry more per
\* mutation, and a store that was mutated has a higher version.
C27_EveryMutationLogged ==
    incs = EmptyBag =>
        /\ Len(ledger) = Len(ledger0) + nMut
        /\ nMut > 0 => MaxVersionOf(ledger) > MaxVersionOf(ledger0)

\* C28: writes that failed or whose transaction was rolled back append no
\* ledger entry: after a restore that returned an error, its transaction
\* rolled back, the ledger is as it was before.
C28_RolledBackWritesNotLogged == rres = "error" => ledger = ledger0

\* C29: on the branches for an unreadable or empty store, a restore that was
\* started with both a remote and a local backup found uses the remote one;
\* the local one is used only when no remote backup was found.
C29_RemotePreferred ==
    (lpath \in {"unreadable", "empty"} /\ rmeta # <<>>) =>
        /\ (minioMeta # <<>> /\ localMeta # <<>>) => rmeta[1].Source = "minio"
        /\ rmeta[1].Source = "local" => minioMeta = <<>>

\* C30: when the current store is readable, has records and is a maximum of
\* the candidates found (or no backup was found at all), LoadFromMinIO has
\* returned nil without starting a restore, and the managed tables and the
\* ledger are exactly what they were before the call.
C30_CurrentNewestUntouched ==
    (lpc # "init" /\ curMeta # <<>> /\ curMeta[1].RecordCount > 0
        /\ IsNewest(curMeta[1]))
        => /\ lpath = "compare"
           /\ lpc = "done" /\ lres = "nil"
           /\ nRestore = 0 /\ rpc = "idle" /\ incs = EmptyBag
           /\ StoreAsBefore
           /\ versions = {} /\ jobs = {}

\* Both destinations hold a backup and the current store still wins.
C30_Witness ==
    /\ lpc = "done" /\ lres = "nil"
    /\ lpath = "compare"
    /\ curMeta[1].RecordCount > 0
    /\ minioMeta # <<>> /\ localMeta # <<>>
    /\ IsNewest(curMeta[1])
    /\ StoreAsBefore

\* ------------------------------------------- a restore with failing inserts
\* A snapshot with every algorithm and every preset data row, published by an
\* earlier process.
FullSnapshot == Doc(AlgIds, {}, PreIds, {}, <<DocMeta(1, MaxAlg, MaxTime)>>)

\* Startup on an empty store or on an older store, with the full snapshot as
\* database-backup/latest.json and no local backup.
InitPartial ==
    /\ algorithms \in {{}, {Min(AlgIds)}}
    /\ preset_data = {}
    /\ versions = {}
    /\ jobs = {}
    /\ ledger = <<>>
    /\ metaUnreadable = FALSE
    /\ tables = ManagedTables
    /\ now = MaxTime
    /\ minioUp = TRUE /\ bucketExists = TRUE
    /\ remoteLatest = <<Stored(FullSnapshot)>>
    /\ remoteJson = <<>> /\ remoteLatestDB = <<>> /\ remoteDB = <<>>
    /\ remoteFinalDB = <<>>
    /\ NoLocal
    /\ IdlePlugin /\ NoTx /\ IdleLoad /\ IdleRestore /\ IdleBackup /\ PreIsNow /\ IdleProvider /\ IdleRetry /\ IdleTicker /\ IdleLegacy

SpecPartial == InitPartial /\ [][NextLoad]_vars

\* The rows the summary counts as failed.
SomeInsertFailed ==
    /\ restoreSummary # <<>>
    /\ restoreSummary[1].failedAlgorithms + restoreSummary[1].failedPresetData > 0

\* The tables hold the number of rows the summary counts as restored, all of
\* them rows of the snapshot.
TablesAreRestoredRows ==
    /\ algorithms \subseteq rdata[1].algorithms
    /\ preset_data \subseteq rdata[1].preset_data
    /\ Cardinality(algorithms) = restoreSummary[1].restoredAlgorithms
    /\ Cardinality(preset_data) = restoreSummary[1].restoredPresetData

CountsAddUp ==
    /\ restoreSummary[1].restoredAlgorithms + restoreSummary[1].failedAlgorithms
          = Cardinality(rdata[1].algorithms)
    /\ restoreSummary[1].restoredPresetData + restoreSummary[1].failedPresetData
          = Cardinality(rdata[1].preset_data)

RestoreEntryAppended ==
    \E i \in DOMAIN ledger :
        i > Len(ledger0) /\ ledger[i] = restoreMetadataFromBackup(rmeta[1])

LedgersUpToTwo(rc) ==
    InitLedgers(rc) \cup {l1 \o l2 : l1, l2 \in InitLedgers(rc) \ {<<>>}}

\* A store file as LoadFromMinIO may find it: before or after the migration
\* of either table (a file of a version without the ledger has algorithms
\* only), a missing table holding nothing, and a ledger entry only in a fully
\* migrated store.
InitMetadata ==
    /\ tables \in SUBSET ManagedTables
    /\ algorithms \in (IF "algorithms" \in tables THEN SUBSET AlgIds ELSE {{}})
    /\ preset_data = {}
    /\ versions = {}
    /\ jobs = {}
    /\ ledger \in (IF tables = ManagedTables
                   THEN LedgersUpToTwo(Cardinality(algorithms)) ELSE {<<>>})
    /\ metaUnreadable \in BOOLEAN
    /\ now = MaxTime
    /\ minioUp \in BOOLEAN
    /\ bucketExists = minioUp
    /\ remoteLatest \in {<<>>} \cup {<<Stored(SnapshotAt(1, 0))>>}
    /\ ~minioUp => remoteLatest = <<>>
    /\ remoteJson = <<>> /\ remoteLatestDB = <<>> /\ remoteDB = <<>>
    /\ remoteFinalDB = <<>>
    /\ NoLocal
    /\ IdlePlugin /\ NoTx /\ IdleLoad /\ IdleRestore /\ IdleBackup /\ PreIsNow /\ IdleProvider /\ IdleRetry /\ IdleTicker /\ IdleLegacy

NextMetadata == LoadFromMinIO

SpecMetadata == InitMetadata /\ [][NextMetadata]_vars

\* The store is fresh for getDatabaseMetadata: no ledger table or no entry.
FreshLedger == "database_metadata" \notin tables \/ ledger0 = <<>>

\* C32: on a store whose reads do not fail for another reason,
\* getDatabaseMetadata returns no error; with the ledger table missing or
\* empty it returns version 0 and the number of rows of algorithms (0 when
\* that table is missing); otherwise the version and last_updated_at of a
\* ledger entry of the highest version, and the number of rows of algorithms.
C32_MetadataOfAnyStore ==
    (lpc # "init" /\ ~metaUnreadable)
        => /\ curMeta # <<>>
           /\ curMeta[1].RecordCount = Cardinality(alg0)
           /\ ("algorithms" \notin tables => curMeta[1].RecordCount = 0)
           /\ IF FreshLedger
              THEN curMeta[1].Version = 0
              ELSE /\ \A i \in DOMAIN ledger0 : ledger0[i].Version <= curMeta[1].Version
                   /\ \E i \in DOMAIN ledger0 :
                         /\ ledger0[i].Version = curMeta[1].Version
                         /\ ledger0[i].LastUpdatedAt = curMeta[1].LastUpdatedAt

\* A store with rows in algorithms and no ledger table.
C32_Witness ==
    /\ lpc # "init"
    /\ tables = {"algorithms"}
    /\ alg0 = AlgIds
    /\ curMeta # <<>>
    /\ curMeta[1].Version = 0
    /\ curMeta[1].RecordCount = MaxAlg

\* C33: a step that writes a timestamped remote snapshot leaves latest.json
\* with the content of that snapshot, so that after every run latest.json
\* equals the most recently written backup-<timestamp>.json.
C33_LatestIsNewestSnapshot ==
    [][remoteJson' # remoteJson
          => /\ remoteLatest' # <<>>
             /\ bts \in DOMAIN remoteJson'
             /\ remoteLatest'[1].doc = remoteJson'[bts]]_vars

\* C34: the backup scheduler is started only after LoadFromMinIO has
\* returned, and no BackupToMinIO run (scheduled, or the final one of Close)
\* is in progress while a restore transaction started by the reconciliation
\* is open.
C34_SchedulerAfterLoad == sched # "none" => lpc = "done"

C34_NoPublicationDuringReconciliation ==
    /\ C34_SchedulerAfterLoad
    /\ (schedRun \/ cpc = "backup") => ~InTx

\* ------------------------------------------------ the scheduler's ticker
MaxDropped == 1

\* StartBackupScheduler, lines 1022 and 1030: the ticker fires while the
\* goroutine is inside BackupToMinIO.  ticker.C holds one tick; a tick that
\* finds it full is dropped by the runtime.
TickDuringRun ==
    /\ sched = "running"
    /\ schedRun
    /\ IF tickC = 0
       THEN tickC' = 1 /\ UNCHANGED dropped
       ELSE dropped < MaxDropped /\ dropped' = dropped + 1 /\ UNCHANGED tickC
    /\ UNCHANGED <<storeVars, now, pluginVars, txVars, remoteVars, localVars, loadVars,
                   restoreVars, preVars, backupVars, providerVars, retryVars, legacyVars>>

\* StartBackupScheduler, lines 1027-1034: back in the select, the goroutine
\* receives the buffered tick and starts BackupToMinIO.
SchedBufferedTick ==
    /\ sched = "running"
    /\ ~schedRun
    /\ tickC = 1
    /\ tickC' = 0
    /\ schedRun' = TRUE
    /\ schedStarts' = schedStarts \cup {Phase}
    /\ UNCHANGED <<storeVars, now, pluginVars, txVars, remoteVars, localVars, loadVars,
                   restoreVars, preVars, backupVars, retryVars, legacyVars, dropped,
                   ppc, journal, handle, worker, stopCheckpoint, stopBackup,
                   sched, cpc, nClose, nFinal, ckpts, closeCkpt, res>>

\* A provider that serves, with the scheduler started by PostMigrate, until
\* Close is called.
InitSched ==
    /\ algorithms \in SUBSET AlgIds
    /\ versions = {} /\ preset_data = {} /\ jobs = {}
    /\ ledger = <<>> /\ metaUnreadable = FALSE
    /\ tables = ManagedTables
    /\ now = 0
    /\ minioUp \in BOOLEAN
    /\ bucketExists = minioUp
    /\ remoteLatest = <<>> /\ remoteJson = <<>> /\ remoteLatestDB = <<>> /\ remoteDB = <<>>
    /\ remoteFinalDB = <<>>
    /\ NoLocal
    /\ IdlePlugin /\ NoTx /\ IdleLoad /\ IdleRestore /\ IdleBackup /\ PreIsNow
    /\ ServingProvider
    /\ IdleRetry /\ IdleTicker /\ IdleLegacy

NextSched ==
    \/ SchedTick \/ TickDuringRun \/ SchedBufferedTick \/ SchedRunEnd \/ SchedStop
    \/ Ping \/ HealthCheck \/ GetStats
    \/ Close \/ CloseBackup \/ CloseDBFile \/ CloseStop \/ CloseStopCheckpoint
    \/ CloseCheckpoint \/ CloseHandle
    \/ WorkerTick \/ WorkerStop

\* BackupToMinIO returns (its MinIO calls carry a 30 s deadline), and a select
\* with several ready cases picks one at random, so the stop case is taken
\* when it is ready again and again.
SpecSched ==
    /\ InitSched /\ [][NextSched]_vars
    /\ WF_vars(SchedRunEnd)
    /\ SF_vars(SchedStop)

\* The scheduler survives the end of every run.
RunEndKeepsScheduler == [][(schedRun /\ ~schedRun') => sched' = "running"]_vars

\* After Stop the scheduler goroutine returns.
StopTerminates == stopBackup ~> (sched = "stopped")

\* C35 (as stated): every tick of the ticker starts a BackupToMinIO run, a
\* failed run does not end the scheduler, and after Stop the goroutine
\* eventually returns.
C35_RunOnEveryTick ==
    /\ [](dropped = 0)
    /\ RunEndKeepsScheduler
    /\ StopTerminates

\* C35 (amended): a tick that fires while the goroutine waits starts a run;
\* a tick that fires during a run is buffered and starts a run when the
\* current one has returned, and is lost only when a tick is buffered
\* already; the end of a run, failed or not, leaves the scheduler running;
\* after Stop the goroutine eventually returns.
C35_TicksCoalesced ==
    /\ [][/\ (tickC = 1 /\ tickC' = 0) => (~schedRun /\ schedRun')
          /\ dropped' # dropped => (schedRun /\ tickC = 1 /\ tickC' = 1)]_vars
    /\ RunEndKeepsScheduler
    /\ StopTerminates

\* Ticks fired during a run, one was lost, the buffered one started a run,
\* and the scheduler returned after Stop.
C35_Witness ==
    /\ sched = "stopped" /\ stopBackup
    /\ dropped > 0 /\ tickC = 0
    /\ ~schedRun

\* ------------------------------- package src/internal/database: Database
MaxIntervals == 3

\* The other variables of the legacy package's actions.
legacyRest == <<versions, jobs, ledger, metaUnreadable, tables, now, pluginVars, txVars,
                minioUp, remoteLatest, remoteJson, remoteLatestDB, remoteDB, remoteFinalDB,
                localVars, loadVars, restoreVars, preVars, backupVars, providerVars,
                retryVars, tickerVars>>

\* New, lines 28-66, and loadFromMinIO, lines 87-139: the store is opened
\* and migrated; a missing bucket is made; the rows of latest.json are
\* created unless a row of that id exists (FirstOrCreate), a failed row is
\* printed and skipped.  The error of loadFromMinIO is a warning.
loadFromMinIO ==
    /\ dpc = "new"
    /\ dpc' = "loaded"
    /\ IF ~minioUp
       THEN UNCHANGED <<algorithms, preset_data, bucketExists>>
       ELSE IF ~bucketExists
       THEN bucketExists' \in BOOLEAN /\ UNCHANGED <<algorithms, preset_data>>
       ELSE IF remoteLatest = <<>>
       THEN UNCHANGED <<algorithms, preset_data, bucketExists>>
       ELSE /\ \E okAlg \in SUBSET remoteLatest[1].doc.algorithms :
                  algorithms' = algorithms \cup okAlg
            /\ \E okPre \in SUBSET remoteLatest[1].doc.preset_data :
                  preset_data' = preset_data \cup okPre
            /\ UNCHANGED bucketExists
    /\ UNCHANGED <<legacyRest, ticker, elapsed, attempts>>

\* startBackupScheduler, line 199: ticker := time.NewTicker(5 * time.Minute).
NewTicker ==
    /\ dpc = "loaded"
    /\ dpc' = "ticker"
    /\ ticker' = "running"
    /\ UNCHANGED <<legacyRest, algorithms, preset_data, bucketExists, elapsed, attempts>>

\* startBackupScheduler, line 200: defer ticker.Stop() runs when
\* startBackupScheduler returns.
TickerAfterReturn == "stopped"

\* startBackupScheduler, lines 202-215: the goroutine is started and the
\* function returns nil, which runs the deferred call.
startBackupScheduler ==
    /\ dpc = "ticker"
    /\ dpc' = "serving"
    /\ ticker' = TickerAfterReturn
    /\ UNCHANGED <<legacyRest, algorithms, preset_data, bucketExists, elapsed, attempts>>

\* Five minutes pass while the Database serves: a running ticker sends on
\* ticker.C and the goroutine (lines 203-212; its context is
\* context.Background(), never cancelled) calls backupToMinIO, whose two
\* PutObject calls (lines 176-188) pass a nil reader and upload nothing; a
\* stopped ticker sends nothing.
Interval ==
    /\ dpc = "serving"
    /\ elapsed < MaxIntervals
    /\ elapsed' = elapsed + 1
    /\ attempts' = IF ticker = "running" THEN attempts + 1 ELSE attempts
    /\ UNCHANGED <<legacyRest, algorithms, preset_data, bucketExists, dpc, ticker>>

\* Close, lines 218-230: a final backupToMinIO, then sqlDB.Close().
DatabaseClose ==
    /\ dpc = "serving"
    /\ dpc' = "closed"
    /\ UNCHANGED <<legacyRest, algorithms, preset_data, bucketExists, ticker, elapsed, attempts>>

\* main.go, line 29: database.New(cfg) on a store file of a previous run or
\* a new one, with MinIO down or up, with or without latest.json.
InitLegacy ==
    /\ algorithms \in SUBSET AlgIds
    /\ preset_data \in SUBSET PreIds
    /\ versions = {} /\ jobs = {}
    /\ ledger = <<>> /\ metaUnreadable = FALSE
    /\ tables = ManagedTables
    /\ now = 0
    /\ minioUp \in BOOLEAN
    /\ bucketExists \in BOOLEAN
    /\ ~minioUp => ~bucketExists
    /\ remoteLatest \in {<<>>} \cup {<<Stored(d)>> : d \in {FullSnapshot} \cup Snapshots}
    /\ ~bucketExists => remoteLatest = <<>>
    /\ remoteJson = <<>> /\ remoteLatestDB = <<>> /\ remoteDB = <<>>
    /\ remoteFinalDB = <<>>
    /\ NoLocal
    /\ IdlePlugin /\ NoTx /\ IdleLoad /\ IdleRestore /\ IdleBackup /\ PreIsNow
    /\ IdleProvider /\ IdleRetry /\ IdleTicker
    /\ dpc = "new" /\ ticker = "none" /\ elapsed = 0 /\ attempts = 0

NextLegacy ==
    \/ loadFromMinIO \/ NewTicker \/ startBackupScheduler \/ Interval \/ DatabaseClose

SpecLegacy == InitLegacy /\ [][NextLegacy]_vars

\* C36: once startBackupScheduler has returned, the scheduler has attempted
\* one backup for every 5-minute interval that has elapsed.
C36_BackupEveryFiveMinutes ==
    dpc \in {"serving", "closed"} => attempts = elapsed

\* b is ahead of c: a greater version, or the same version updated later.
Ahead(b, c) ==
    \/ b.Version > c.Version
    \/ (b.Version = c.Version /\ b.LastUpdatedAt > c.LastUpdatedAt)

SameAge(b, c) == b.Version = c.Version /\ b.LastUpdatedAt = c.LastUpdatedAt

\* C37: when LoadFromMinIO has read the metadata of a store with
\* record_count > 0 and started a restore, the snapshot restored is ahead of
\* the store (greater version, or equal version and strictly later
\* last_updated_at); a backup of the store's version and update time never
\* replaces it; of a MinIO and a local backup with equal version and update
\* time the MinIO one is restored; and the store's version after the restore
\* is not below the one before.
C37_NeverLowersVersion ==
    (lpc # "init" /\ curMeta # <<>> /\ curMeta[1].RecordCount > 0)
        => /\ nRestore > 0 => /\ Ahead(rmeta[1], curMeta[1])
                              /\ rmeta[1].Version >= MaxVersionOf(ledger0)
           /\ (\A b \in Candidates : SameAge(b, curMeta[1])) => nRestore = 0
           /\ (nRestore > 0 /\ minioMeta # <<>> /\ localMeta # <<>>
                 /\ SameAge(minioMeta[1], localMeta[1]))
                 => rmeta[1].Source = "minio"
           /\ MaxVersionOf(ledger) >= MaxVersionOf(ledger0)

\* A MinIO and a local backup of the same version and update time, both
\* ahead of a store with records: the MinIO one has been restored.
C37_Witness ==
    /\ lpc = "done" /\ rpc = "done" /\ rres = "nil"
    /\ curMeta # <<>> /\ curMeta[1].RecordCount > 0
    /\ minioMeta # <<>> /\ localMeta # <<>>
    /\ SameAge(minioMeta[1], localMeta[1])
    /\ rmeta[1].Source = "minio"
    /\ Ahead(rmeta[1], curMeta[1])

\* ------------------------------------------- reconciliation, run twice
\* The process is started again after a reconciliation that restored a
\* backup: restoreFromBackup returned nil, LoadFromMinIO returned, and the
\* version increments the restore triggered have finished.  The store file
\* and the backups are what the first run left.
LoadAgain ==
    /\ lpc = "done" /\ toPc = ""
    /\ rpc = "done" /\ rres = "nil"
    /\ nRestore = 1
    /\ incs = EmptyBag
    /\ lpc' = "init" /\ lpath' = "" /\ lres' = "" /\ ctxDone' = FALSE /\ toPc' = ""
    /\ curMeta' = <<>> /\ minioMeta' = <<>> /\ localMeta' = <<>>
    /\ rpc' = "idle" /\ rmeta' = <<>> /\ rdata' = <<>> /\ rres' = ""
    /\ restoreChan' = <<>> /\ restoreSummary' = <<>>
    /\ UNCHANGED <<storeVars, now, pluginVars, txVars, remoteVars, localVars, nRestore,
                   preVars, backupVars, providerVars, retryVars, tickerVars, legacyVars>>

NextStable == NextLoad \/ LoadAgain

SpecStable == InitLoad /\ [][NextStable]_vars

\* C38: the second LoadFromMinIO, run after one that restored successfully,
\* with the same backups and no mutation in between, starts no restore.
C38_ReconciliationStable == nRestore <= 1

\* C39: once Close has closed the handle the checkpoint worker has run its
\* final checkpoint and returned, so that no checkpoint is attempted on the
\* closed handle.
C39_WorkerDoneBeforeHandleClosed ==
    handle = "closed" => worker \in {"none", "stopped"}

====
